---- MODULE Spec2Model ----
(***************************************************************************)
(* ensureconda (Go implementation): installers of one tool racing on the   *)
(* shared data directory, the selection of the conda-standalone package   *)
(* to download, the search for an executable and its version predicate.    *)
(*                                                                         *)
(* Spec       installer processes calling InstallMicromamba or             *)
(*            InstallCondaStandalone against one data directory            *)
(* FairSpec   Spec with weak fairness of every process step                *)
(* SelectSpec computeCandidates on registry responses and their            *)
(*            reorderings                                                  *)
(* FreshSpec  InstallCondaStandalone up to its freshness check, on targets *)
(*            of ages around the ends of the freshness window              *)
(* ResolveSpec ResolveExecutable and FindExecutable on data directories,   *)
(*            PATH values and files                                        *)
(* VersionSpec executableHasMinVersion on the outcomes of `exe --version`  *)
(* EnsureSpec the command: rootCmd.Run and EnsureConda on hosts with       *)
(*            executables on PATH, earlier installs and a download source  *)
(* ExtractSpec the unpacking of one download: the choice of the member     *)
(* MambaSpec  mambaVersionCheck: the prefixed and the unprefixed check     *)
(* CallSpec   one direct call of EnsureConda with the flags of the host    *)
(***************************************************************************)
EXTENDS Integers, Sequences, FiniteSets, TLC

(***************************************************************************)
(* Bounds of the model.                                                    *)
(***************************************************************************)
NumInstallers == 2
MaxCalls == 3
MaxFaults == 1
MemberSize == 2
MaxDescriptors == 3
\* files and directories present on the search path of a resolution
MaxFiles == 2
\* entries of a tar stream or a .conda container that is unpacked
MaxEntries == 2

(***************************************************************************)
(* Program constants.                                                      *)
(***************************************************************************)
\* retry.NewRetrier(10, ...): the number of tries of the write step
MaxTries == 10
\* const redownloadWhenOlder = 24 * time.Hour, in seconds
redownloadWhenOlder == 86400
\* const negativeAgeTolerance = -60 * time.Second, in seconds
negativeAgeTolerance == -60

(***************************************************************************)
(* Strings.                                                                *)
(***************************************************************************)
HasPrefix(s, pre) == Len(s) >= Len(pre) /\ SubSeq(s, 1, Len(pre)) = pre

HasSuffix(s, suf) ==
    Len(s) >= Len(suf) /\ SubSeq(s, Len(s) - Len(suf) + 1, Len(s)) = suf

Contains(s, sub) ==
    \E i \in 1..(Len(s) + 1) :
        i + Len(sub) - 1 <= Len(s) /\ SubSeq(s, i, i + Len(sub) - 1) = sub

\* strings.Split(s, sep) for a separator of one character
RECURSIVE SplitFrom(_, _, _, _)
SplitFrom(s, sep, i, cur) ==
    IF i > Len(s) THEN <<cur>>
    ELSE IF SubSeq(s, i, i) = sep
         THEN <<cur>> \o SplitFrom(s, sep, i + 1, "")
         ELSE SplitFrom(s, sep, i + 1, cur \o SubSeq(s, i, i))

Split(s, sep) == SplitFrom(s, sep, 1, "")

\* strings.Join(elems, sep)
RECURSIVE JoinFrom(_, _, _)
JoinFrom(elems, sep, i) ==
    IF i > Len(elems) THEN ""
    ELSE IF i = Len(elems) THEN elems[i]
    ELSE elems[i] \o sep \o JoinFrom(elems, sep, i + 1)

Join(elems, sep) == JoinFrom(elems, sep, 1)

\* strings.ReplaceAll(s, "\r\n", "\n")
RECURSIVE ReplaceCRLF(_, _)
ReplaceCRLF(s, i) ==
    IF i > Len(s) THEN ""
    ELSE IF i < Len(s) /\ SubSeq(s, i, i + 1) = "\r\n"
         THEN "\n" \o ReplaceCRLF(s, i + 2)
         ELSE SubSeq(s, i, i) \o ReplaceCRLF(s, i + 1)

Digits == <<"0", "1", "2", "3", "4", "5", "6", "7", "8", "9">>

IsDigit(c) == \E d \in 1..10 : Digits[d] = c

DigitValue(c) == (CHOOSE d \in 1..10 : Digits[d] = c) - 1

(***************************************************************************)
(* pep440.Parse, restricted to release versions N(.N)*: the result is the  *)
(* sequence of release numbers, or <<-1>> when the string does not parse.  *)
(***************************************************************************)
Unparseable == <<-1>>

RECURSIVE ParseFrom(_, _, _, _, _)
ParseFrom(s, i, cur, has, acc) ==
    IF i > Len(s)
    THEN IF has THEN Append(acc, cur) ELSE Unparseable
    ELSE LET c == SubSeq(s, i, i)
         IN  IF IsDigit(c)
             THEN ParseFrom(s, i + 1, cur * 10 + DigitValue(c), TRUE, acc)
             ELSE IF c = "." /\ has
                  THEN ParseFrom(s, i + 1, 0, FALSE, Append(acc, cur))
                  ELSE Unparseable

Parse(s) == ParseFrom(s, 1, 0, FALSE, <<>>)

Parses(s) == Parse(s) # Unparseable

\* release number i of a parsed version, missing numbers count as 0
Release(v, i) == IF i <= Len(v) THEN v[i] ELSE 0

\* pep440 Version.LessThan on parsed release versions
LessThan(v, w) ==
    LET n == IF Len(v) > Len(w) THEN Len(v) ELSE Len(w)
    IN  \E i \in 1..n :
            /\ Release(v, i) < Release(w, i)
            /\ \A j \in 1..(i - 1) : Release(v, j) = Release(w, j)

(***************************************************************************)
(* AnacondaPkgs.Less, and sort.Sort(AnacondaPkgs(filtered)): for slices of *)
(* at most 12 elements sort.Sort is an insertion sort.                     *)
(***************************************************************************)
\* a comparator that ranks the lower build number higher
Less_BuildReversed(a, i, j) ==
    LET iVer == Parse(a[i].Version)
        jVer == Parse(a[j].Version)
    IN  IF LessThan(iVer, jVer) THEN TRUE
        ELSE IF LessThan(jVer, iVer) THEN FALSE
        ELSE IF a[i].Attrs.BuildNumber > a[j].Attrs.BuildNumber THEN TRUE
        ELSE IF a[j].Attrs.BuildNumber > a[i].Attrs.BuildNumber THEN FALSE
        ELSE a[i].Attrs.Timestamp < a[j].Attrs.Timestamp

Less(a, i, j) ==
    LET iVer == Parse(a[i].Version)
        jVer == Parse(a[j].Version)
    IN  IF LessThan(iVer, jVer) THEN TRUE
        ELSE IF LessThan(jVer, iVer) THEN FALSE
        ELSE IF a[i].Attrs.BuildNumber < a[j].Attrs.BuildNumber THEN TRUE
        ELSE IF a[j].Attrs.BuildNumber < a[i].Attrs.BuildNumber THEN FALSE
        ELSE a[i].Attrs.Timestamp < a[j].Attrs.Timestamp

Swap(a, i, j) == [a EXCEPT ![i] = a[j], ![j] = a[i]]

RECURSIVE SinkDown(_, _)
SinkDown(a, j) ==
    IF j > 1 /\ Less(a, j, j - 1) THEN SinkDown(Swap(a, j, j - 1), j - 1) ELSE a

RECURSIVE InsertionSort(_, _)
InsertionSort(a, i) ==
    IF i > Len(a) THEN a ELSE InsertionSort(SinkDown(a, i), i + 1)

Sort(a) == InsertionSort(a, 2)

\* Less panics when pep440.Parse fails on one of its two elements; the
\* insertion sort compares every element of a slice of two or more
SortPanics(a) == Len(a) >= 2 /\ \E i \in 1..Len(a) : ~Parses(a[i].Version)

(***************************************************************************)
(* computeCandidates, applied to the decoded registry response `data`:     *)
(* [err, candidates].                                                      *)
(***************************************************************************)
RECURSIVE FilterSubdir(_, _, _)
FilterSubdir(data, i, subdir) ==
    IF i > Len(data) THEN <<>>
    ELSE LET datum == data[i]
             rest == FilterSubdir(data, i + 1, subdir)
         IN  IF /\ datum.Attrs.Subdir = subdir
                /\ ~Contains(datum.Attrs.Build, "_onedir_")
             THEN <<datum>> \o rest
             ELSE rest

\* a filter that lets every version through
FilterParseable_KeepsAll(candidates, i) == SubSeq(candidates, i, Len(candidates))

RECURSIVE FilterParseable(_, _)
FilterParseable(candidates, i) ==
    IF i > Len(candidates) THEN <<>>
    ELSE LET c == candidates[i]
             rest == FilterParseable(candidates, i + 1)
         IN  IF Parses(c.Version) THEN <<c>> \o rest ELSE rest

\* a computeCandidates that tests for emptiness before the version filter
computeCandidates_ChecksUnfiltered(data, subdir) ==
    LET candidates == FilterSubdir(data, 1, subdir)
        filtered == FilterParseable(candidates, 1)
    IN  IF Len(candidates) = 0
        THEN [err |-> "candidates", candidates |-> <<>>]
        ELSE IF SortPanics(filtered)
        THEN [err |-> "panic", candidates |-> <<>>]
        ELSE [err |-> "none", candidates |-> Sort(filtered)]

computeCandidates(data, subdir) ==
    LET candidates == FilterSubdir(data, 1, subdir)
        filtered == FilterParseable(candidates, 1)
    IN  IF Len(filtered) = 0
        THEN [err |-> "candidates", candidates |-> <<>>]
        ELSE IF SortPanics(filtered)
        THEN [err |-> "panic", candidates |-> <<>>]
        ELSE [err |-> "none", candidates |-> Sort(filtered)]

\* chosen := candidates[len(candidates)-1]
Chosen(candidates) == candidates[Len(candidates)]

(***************************************************************************)
(* inferArchiveTypeFromUrl                                                 *)
(***************************************************************************)
\* an archive type that ignores the url
inferArchiveTypeFromUrl_AlwaysTar(url) == "TarBz2Archive"

\* the url has none of the endings an archive type is known for
Unsupported(url) ==
    /\ ~HasSuffix(url, ".tar.bz2")
    /\ ~HasSuffix(url, "/latest")
    /\ ~HasSuffix(url, ".conda")

inferArchiveTypeFromUrl(url) ==
    IF HasSuffix(url, "/latest") \/ HasSuffix(url, ".tar.bz2")
    THEN "TarBz2Archive"
    ELSE IF HasSuffix(url, ".conda") THEN "CondaArchive"
    ELSE "UnrecognizedArchive"

(***************************************************************************)
(* getChannelName, applied to the value of                                 *)
(* ENSURECONDA_CONDA_STANDALONE_CHANNEL: [err, channel].                   *)
(***************************************************************************)
ChannelChars ==
    { "a", "b", "c", "d", "e", "f", "g", "h", "i", "j", "k", "l", "m",
      "n", "o", "p", "q", "r", "s", "t", "u", "v", "w", "x", "y", "z",
      "A", "B", "C", "D", "E", "F", "G", "H", "I", "J", "K", "L", "M",
      "N", "O", "P", "Q", "R", "S", "T", "U", "V", "W", "X", "Y", "Z",
      "0", "1", "2", "3", "4", "5", "6", "7", "8", "9", "_", "-" }

\* a pattern that accepts every non-empty name
validChannelName_AnyToken(channel) == Len(channel) >= 1

validChannelName(channel) ==
    /\ Len(channel) >= 1
    /\ \A i \in 1..Len(channel) : SubSeq(channel, i, i) \in ChannelChars

getChannelName(env) ==
    LET channel == IF env = "" THEN "anaconda" ELSE env
    IN  IF validChannelName(channel)
        THEN [err |-> "none", channel |-> channel]
        ELSE [err |-> "channel", channel |-> ""]

(***************************************************************************)
(* The platform, the data directory and the files of a tool.               *)
(***************************************************************************)
GOOS == "linux"

\* PlatformSubdir() of the platform
PlatformSubdir == "linux-64"

sitePath == "data"

Tools == {"micromamba", "conda_standalone"}

targetExeFilename(exeName) ==
    LET targetFileName == sitePath \o "/" \o exeName
    IN  IF GOOS = "windows" THEN targetFileName \o ".exe" ELSE targetFileName

\* tmpFileName := targetFileName + ".tmp" in extractTarFiles
tmpFileNameOf(targetFileName) == targetFileName \o ".tmp"

\* flock.New(targetFileName + ".lock") in extractTarFile, which is handed
\* the temp file's name
writeLockPathOf(tmpFileName) == tmpFileName \o ".lock"

\* lockPath in InstallCondaStandalone
installLockPath == sitePath \o "/conda_exe_install.lock"

FilePaths ==
    {targetExeFilename(t) : t \in Tools}
        \cup {tmpFileNameOf(targetExeFilename(t)) : t \in Tools}

LockPaths ==
    {writeLockPathOf(tmpFileNameOf(targetExeFilename(t))) : t \in Tools}
        \cup {installLockPath}

\* the member-to-target maps of installMicromamba and InstallCondaStandalone
fileNameMap(t) ==
    IF t = "micromamba"
    THEN [n \in {"Library/bin/micromamba.exe", "bin/micromamba"}
              |-> targetExeFilename("micromamba")]
    ELSE [n \in {"standalone_conda/conda.exe"}
              |-> targetExeFilename("conda_standalone")]

\* fileNameMap[header.Name]: the empty string for a name that is no key
MapLookup(m, name) == IF name \in DOMAIN m THEN m[name] ELSE ""

\* the url of InstallMicromamba
micromambaUrl ==
    "https://micro.mamba.pm/api/micromamba/" \o PlatformSubdir \o "/latest"

(***************************************************************************)
(* What the network can answer: registry responses, tar streams and .conda *)
(* containers.  The bytes of a member of Size n are 1, 2, .., n.           *)
(***************************************************************************)
Pkg(version, build, buildNumber, timestamp, subdir, url) ==
    [ Attrs |-> [Subdir |-> subdir, Build |-> build,
                 BuildNumber |-> buildNumber, Timestamp |-> timestamp],
      Version |-> version,
      DownloadUrl |-> url ]

PkgPool ==
    { Pkg("4.8.0", "h_0", 0, 100, "linux-64", "//a.org/cs-4.8.0-0.tar.bz2"),
      Pkg("4.8.2", "h_1", 1, 100, "linux-64", "//a.org/cs-4.8.2-1.tar.bz2"),
      Pkg("4.8.2", "h_0", 0, 200, "linux-64", "//a.org/cs-4.8.2-0.tar.bz2"),
      Pkg("4.8.2", "h_1", 1, 100, "linux-64", "//a.org/cs-4.8.2-1.conda"),
      Pkg("4.8.2.0", "h_1", 1, 100, "linux-64", "//a.org/cs-4.8.2.0-1.zip"),
      Pkg("4.x", "h_9", 9, 900, "linux-64", "//a.org/cs-4.x-9.conda"),
      Pkg("5.0.0", "h_0", 0, 300, "osx-64", "//a.org/osx/cs-5.0.0-0.conda"),
      Pkg("5.1.0", "h_onedir_0", 0, 400, "linux-64",
          "//a.org/cs-5.1.0-onedir.conda") }

\* the descriptors of data that pass the filters of computeCandidates
Eligible(data) ==
    { i \in 1..Len(data) :
        /\ data[i].Attrs.Subdir = PlatformSubdir
        /\ ~Contains(data[i].Attrs.Build, "_onedir_")
        /\ Parses(data[i].Version) }

\* the registry responses the installers are served
Registries ==
    { <<>>,
      << Pkg("4.8.0", "h_0", 0, 100, "linux-64", "//a.org/cs-4.8.0-0.tar.bz2"),
         Pkg("4.8.2", "h_1", 1, 100, "linux-64", "//a.org/cs-4.8.2-1.conda") >>,
      << Pkg("4.8.2", "h_0", 0, 200, "linux-64", "//a.org/cs-4.8.2-0.tar.bz2"),
         Pkg("4.x", "h_9", 9, 900, "linux-64", "//a.org/cs-4.x-9.conda") >>,
      << Pkg("4.8.2.0", "h_1", 1, 100, "linux-64", "//a.org/cs-4.8.2.0-1.zip") >>,
      << Pkg("5.0.0", "h_0", 0, 300, "osx-64", "//a.org/osx/cs-5.0.0-0.conda"),
         Pkg("5.1.0", "h_onedir_0", 0, 400, "linux-64",
             "//a.org/cs-5.1.0-onedir.conda"),
         Pkg("4.x", "h_9", 9, 900, "linux-64", "//a.org/cs-4.x-9.conda") >> }

Bytes(n) == [i \in 1..n |-> i]

Entry(name, typeflag, size, xusr) ==
    [Name |-> name, Typeflag |-> typeflag, Size |-> size, Xusr |-> xusr]

MemberName(t) ==
    IF t = "micromamba" THEN "bin/micromamba" ELSE "standalone_conda/conda.exe"

\* the tar streams served for tool t
TarStreams(t) ==
    { << Entry("info/index.json", "TypeReg", 1, FALSE),
         Entry(MemberName(t), "TypeReg", MemberSize, TRUE) >>,
      << Entry(MemberName(t), "TypeDir", 0, TRUE),
         Entry(MemberName(t), "TypeReg", MemberSize, FALSE) >>,
      << Entry("info/index.json", "TypeReg", 1, FALSE) >> }

\* the .conda containers served for tool t: zip entries holding tar streams
CondaContainers(t) ==
    { << [Name |-> "metadata.json", Tar |-> <<>>],
         [Name |-> "pkg-conda-standalone-4.8.2-1.tar.zst", Tar |-> tar] >>
        : tar \in TarStreams(t) }
    \cup
    { << [Name |-> "info-conda-standalone-4.8.2-1.tar.zst",
          Tar |-> <<Entry(MemberName(t), "TypeReg", MemberSize, TRUE)>>] >> }

\* the zip entry downloadAndUnpackConda opens: 0 when there is none
RECURSIVE PkgEntry(_, _)
PkgEntry(zip, i) ==
    IF i > Len(zip) THEN 0
    ELSE IF /\ HasPrefix(zip[i].Name, "pkg-conda-standalone")
            /\ HasSuffix(zip[i].Name, ".tar.zst")
         THEN i
         ELSE PkgEntry(zip, i + 1)

\* the entry extractTarFiles hands to extractTarFile: 0 when the stream ends
\* first
\* a choice of the entry by its name alone
RECURSIVE MatchingEntry_AnyType(_, _, _)
MatchingEntry_AnyType(tar, i, map) ==
    IF i > Len(tar) THEN 0
    ELSE IF MapLookup(map, tar[i].Name) # ""
         THEN i
         ELSE MatchingEntry_AnyType(tar, i + 1, map)

RECURSIVE MatchingEntry(_, _, _)
MatchingEntry(tar, i, map) ==
    IF i > Len(tar) THEN 0
    ELSE IF tar[i].Typeflag = "TypeReg" /\ MapLookup(map, tar[i].Name) # ""
         THEN i
         ELSE MatchingEntry(tar, i + 1, map)

(***************************************************************************)
(* State.                                                                  *)
(***************************************************************************)
Procs == 1..NumInstallers

Inodes == 1..(NumInstallers + 2)

VARIABLES
    tool,       \* the tool the installers of this run install
    now,        \* wall clock, seconds
    fs,         \* path -> inode, 0 when the path does not exist
    inodes,     \* inode -> [data, xusr, mtime]
    locks,      \* lock path -> [exists, state, by]
    pc,         \* where each process is
    calls,      \* install calls each process has started
    local,      \* the locals of the running call of each process
    result,     \* [path, err] of the last call that returned
    faults,     \* failures of the environment so far
    hist,       \* what has happened in the running call (history)
    response,   \* SelectSpec: the registry response, as first received
    selection,  \* SelectSpec: [state, err, url] of the selection on it
    reselection,\* SelectSpec: the selection on the response reordered
    disk,       \* ResolveSpec: path -> what is found there
    lookup,     \* ResolveSpec: the call of ResolveExecutable
    check,      \* VersionSpec: the call of the version predicate
    host,       \* EnsureSpec: the platform, its files, the network, the flags
    run,        \* EnsureSpec: the run of the command
    archive,    \* ExtractSpec: the tool and the body of the download
    unpack      \* ExtractSpec: the unpacking of the body

instVars == <<tool, now, fs, inodes, locks, pc, calls, local, result, faults, hist>>

selVars == <<response, selection, reselection>>

resVars == <<disk, lookup>>

verVars == <<check>>

ensVars == <<host, run>>

extVars == <<archive, unpack>>

pureVars == <<response, selection, reselection, disk, lookup, check, host, run,
              archive, unpack>>

vars == <<tool, now, fs, inodes, locks, pc, calls, local, result, faults,
          hist, response, selection, reselection, disk, lookup, check, host,
          run, archive, unpack>>

NoInode == [data |-> <<>>, xusr |-> FALSE, mtime |-> 0]

NoLocal ==
    [ url |-> "", target |-> "", size |-> 0, xusr |-> FALSE, tries |-> 0,
      consumed |-> 0, trErr |-> FALSE, cpErr |-> FALSE, n |-> 0, fd |-> 0,
      mode |-> FALSE ]

NoResult == [path |-> "", err |-> "none"]

NoHist ==
    [ onlyLockFail |-> TRUE, sawMismatch |-> FALSE, wrote |-> FALSE,
      renamed |-> FALSE, prevOk |-> FALSE, prevData |-> <<>>,
      noCandidates |-> FALSE, badChannel |-> FALSE, badUrl |-> FALSE ]

Target == targetExeFilename(tool)

Tmp == tmpFileNameOf(Target)

\* an inode no path and no open file refers to any more is gone
Collect(f, fds, ino) ==
    [i \in Inodes |->
        IF (\E path \in FilePaths : f[path] = i) \/ (\E p \in Procs : fds[p] = i)
        THEN ino[i] ELSE NoInode]

FreeInode(f, fds) ==
    CHOOSE i \in Inodes :
        /\ \A path \in FilePaths : f[path] # i
        /\ \A p \in Procs : fds[p] # i
        /\ \A j \in Inodes :
               ((\A path \in FilePaths : f[path] # j)
                    /\ (\A p \in Procs : fds[p] # j)) => i <= j

Fds == [p \in Procs |-> local[p].fd]

Exists(path) == fs[path] # 0

Data(path) == inodes[fs[path]].data

OldData == <<9>>

\* the target of an earlier install: absent, or a complete older file
InitialTargets ==
    { [exists |-> FALSE, mtime |-> 0] }
        \cup { [exists |-> TRUE, mtime |-> m] :
                   m \in { 2 * redownloadWhenOlder - 23 * 3600,
                           2 * redownloadWhenOlder - 25 * 3600,
                           2 * redownloadWhenOlder + 120 } }

InstInit ==
    /\ tool \in Tools
    /\ now = 2 * redownloadWhenOlder
    /\ \E t0 \in InitialTargets :
          /\ tool = "micromamba" => t0.mtime <= now - redownloadWhenOlder
          /\ fs = [path \in FilePaths |->
                      IF path = Target /\ t0.exists THEN 1 ELSE 0]
          /\ inodes = [i \in Inodes |->
                          IF i = 1 /\ t0.exists
                          THEN [data |-> OldData, xusr |-> TRUE, mtime |-> t0.mtime]
                          ELSE NoInode]
    /\ \E foreign \in SUBSET {installLockPath} :
          /\ tool = "micromamba" => foreign = {}
          /\ locks = [l \in LockPaths |->
                      IF l \in foreign
                      THEN [exists |-> TRUE, state |-> "foreign", by |-> 0]
                      ELSE [exists |-> FALSE, state |-> "free", by |-> 0]]
    /\ pc = [p \in Procs |-> "idle"]
    /\ calls = [p \in Procs |-> 0]
    /\ local = [p \in Procs |-> NoLocal]
    /\ result = [p \in Procs |-> NoResult]
    /\ faults = 0
    /\ hist = [p \in Procs |-> NoHist]

(***************************************************************************)
(* Steps shared by the actions.                                            *)
(***************************************************************************)
Fault == faults < MaxFaults /\ faults' = faults + 1

\* a freshness window that includes its upper end
Fresh_Inclusive(mtime) ==
    LET age == now - mtime
    IN  age <= redownloadWhenOlder /\ age > negativeAgeTolerance

\* age < redownloadWhenOlder && age > negativeAgeTolerance
Fresh(mtime) ==
    LET age == now - mtime
    IN  age < redownloadWhenOlder /\ age > negativeAgeTolerance

\* a return without the deferred Unlock: the install lock stays with p
ReturnLocks_NoDeferredUnlock(p) ==
    [l \in LockPaths |->
        IF locks[l].by = p /\ locks[l].state = "held" /\ l # installLockPath
        THEN [locks[l] EXCEPT !.state = "leaked"]
        ELSE locks[l]]

\* the locks when the call of p returns: the deferred Unlock frees the
\* install lock; the Flock value of extractTarFile is never unlocked and is
\* unreachable once extractTarFile has returned
ReturnLocks(p) ==
    [l \in LockPaths |->
        IF locks[l].by = p /\ locks[l].state = "held"
        THEN IF l = installLockPath
             THEN [locks[l] EXCEPT !.state = "free", !.by = 0]
             ELSE [locks[l] EXCEPT !.state = "leaked"]
        ELSE locks[l]]

\* extractTarFile has returned in p: its Flock value is unreachable
LeakWriteLock(p) ==
    [l \in LockPaths |->
        IF locks[l].by = p /\ locks[l].state = "held" /\ l # installLockPath
        THEN [locks[l] EXCEPT !.state = "leaked"]
        ELSE locks[l]]

Return(p, path, err) ==
    /\ pc' = [pc EXCEPT ![p] = "done"]
    /\ result' = [result EXCEPT ![p] = [path |-> path, err |-> err]]
    /\ local' = [local EXCEPT ![p] = NoLocal]
    /\ locks' = ReturnLocks(p)

\* a panic ends the process of p: the kernel drops the locks it holds
Crash(p) ==
    /\ pc' = [pc EXCEPT ![p] = "exited"]
    /\ result' = [result EXCEPT ![p] = [path |-> "", err |-> "panic"]]
    /\ local' = [local EXCEPT ![p] = NoLocal]
    /\ locks' = [l \in LockPaths |->
                    IF locks[l].by = p
                    THEN [locks[l] EXCEPT !.state = "free", !.by = 0]
                    ELSE locks[l]]

\* downloadAndUnpackArchive up to the GET request
downloadAndUnpackArchive(p, url) ==
    IF inferArchiveTypeFromUrl(url) = "UnrecognizedArchive"
    THEN Return(p, "", "unrecognized archive type")
    ELSE /\ pc' = [pc EXCEPT ![p] = "get"]
         /\ local' = [local EXCEPT ![p] = [NoLocal EXCEPT !.url = url]]
         /\ result' = [result EXCEPT ![p] = NoResult]
         /\ UNCHANGED locks

\* a retrier that allows one run more than MaxTries
RetryOrGiveUp_OneMore(p, err, loc) ==
    IF loc.tries + 1 = MaxTries + 1
    THEN Return(p, "", err)
    ELSE /\ local' = [local EXCEPT ![p] = [loc EXCEPT !.tries = loc.tries + 1]]
         /\ pc' = [pc EXCEPT ![p] = "trylock"]
         /\ UNCHANGED <<result, locks>>

\* one run of the function handed to r.Run has returned err: the retrier
\* gives up after MaxTries runs and tries again otherwise
RetryOrGiveUp(p, err, loc) ==
    IF loc.tries + 1 = MaxTries
    THEN Return(p, "", err)
    ELSE /\ local' = [local EXCEPT ![p] = [loc EXCEPT !.tries = loc.tries + 1]]
         /\ pc' = [pc EXCEPT ![p] = "trylock"]
         /\ UNCHANGED <<result, locks>>

\* os.File.Write of bytes at offset off (1 is the start of the file)
WriteFrom(data, off, bytes) ==
    LET end == off + Len(bytes) - 1
        len == IF end > Len(data) THEN end ELSE Len(data)
    IN  [i \in 1..len |->
            IF i >= off /\ i <= end THEN bytes[i - off + 1]
            ELSE IF i <= Len(data) THEN data[i] ELSE 0]

RECURSIVE SumCalls(_)
SumCalls(p) == IF p = 0 THEN 0 ELSE calls[p] + SumCalls(p - 1)

\* install calls started in this run
CallsStarted == SumCalls(NumInstallers)

StartHist(p) ==
    [ NoHist EXCEPT
        !.prevOk = (calls[p] > 0 /\ result[p].err = "none"),
        !.prevData = IF calls[p] > 0 /\ Exists(Target) THEN Data(Target) ELSE <<>> ]

(***************************************************************************)
(* InstallMicromamba: installMicromamba, downloadAndUnpackArchive.         *)
(***************************************************************************)
InstallMicromamba(p) ==
    /\ tool = "micromamba"
    /\ pc[p] \in {"idle", "done"}
    /\ CallsStarted < MaxCalls
    /\ calls' = [calls EXCEPT ![p] = calls[p] + 1]
    /\ hist' = [hist EXCEPT ![p] =
                    [StartHist(p) EXCEPT !.badUrl = Unsupported(micromambaUrl)]]
    /\ downloadAndUnpackArchive(p, micromambaUrl)
    /\ UNCHANGED <<tool, now, fs, inodes, faults, pureVars>>

(***************************************************************************)
(* InstallCondaStandalone.                                                 *)
(***************************************************************************)
ChannelEnvs == {"", "conda-forge", "ana;conda"}

\* env is unset or empty, or a token of letters, digits, - and _
WellFormed(env) ==
    \A i \in 1..Len(env) :
        \/ IsDigit(SubSeq(env, i, i))
        \/ SubSeq(env, i, i) \in {"-", "_"}
        \/ \E k \in 1..26 :
              \/ SubSeq("abcdefghijklmnopqrstuvwxyz", k, k) = SubSeq(env, i, i)
              \/ SubSeq("ABCDEFGHIJKLMNOPQRSTUVWXYZ", k, k) = SubSeq(env, i, i)

InstallCondaStandalone(p) ==
    /\ tool = "conda_standalone"
    /\ pc[p] \in {"idle", "done"}
    /\ CallsStarted < MaxCalls
    /\ calls' = [calls EXCEPT ![p] = calls[p] + 1]
    /\ \E env \in ChannelEnvs :
          /\ hist' = [hist EXCEPT ![p] =
                          [StartHist(p) EXCEPT !.badChannel = ~WellFormed(env)]]
          /\ IF getChannelName(env).err # "none"
             THEN Return(p, "", "invalid channel name")
             ELSE /\ pc' = [pc EXCEPT ![p] = "lock"]
                  /\ local' = [local EXCEPT ![p] = NoLocal]
                  /\ result' = [result EXCEPT ![p] = NoResult]
                  /\ UNCHANGED locks
    /\ UNCHANGED <<tool, now, fs, inodes, faults, pureVars>>

\* an InstallCondaStandalone that goes on without taking the install lock
AcquireInstallLock_Skipped(p) ==
    /\ pc[p] = "lock"
    /\ pc' = [pc EXCEPT ![p] = "fresh"]
    /\ UNCHANGED <<tool, now, fs, inodes, locks, calls, local, result, faults,
                   hist, pureVars>>

\* fileLock.Lock() returns once no other process holds the lock
AcquireInstallLock(p) ==
    /\ pc[p] = "lock"
    /\ locks[installLockPath].state = "free"
    /\ locks' = [locks EXCEPT ![installLockPath] =
                    [exists |-> TRUE, state |-> "held", by |-> p]]
    /\ pc' = [pc EXCEPT ![p] = "fresh"]
    /\ UNCHANGED <<tool, now, fs, inodes, calls, local, result, faults, hist,
                   pureVars>>

\* "Check if already installed and fresh"; otherwise the registry is queried
CheckFresh(p) ==
    /\ pc[p] = "fresh"
    /\ IF Exists(Target) /\ Fresh(inodes[fs[Target]].mtime)
       THEN Return(p, Target, "none")
       ELSE /\ pc' = [pc EXCEPT ![p] = "query"]
            /\ UNCHANGED <<local, result, locks>>
    /\ UNCHANGED <<tool, now, fs, inodes, calls, faults, hist, pureVars>>

\* the registry answers: computeCandidates, the choice, and
\* downloadAndUnpackArchive up to its GET request
QueryAnswered(p) ==
    /\ pc[p] = "query"
    /\ \E data \in Registries :
          LET r == computeCandidates(data, PlatformSubdir)
          IN  /\ hist' = [hist EXCEPT
                            ![p].noCandidates = (Eligible(data) = {}),
                            ![p].badUrl =
                                /\ r.err = "none"
                                /\ Len(r.candidates) > 0
                                /\ Unsupported("https:" \o
                                       Chosen(r.candidates).DownloadUrl)]
              /\ IF r.err = "panic" \/ (r.err = "none" /\ Len(r.candidates) = 0)
                 THEN Crash(p)
                 ELSE IF r.err # "none"
                 THEN Return(p, "", "listing conda-standalone candidates")
                 ELSE downloadAndUnpackArchive(
                          p, "https:" \o Chosen(r.candidates).DownloadUrl)
    /\ UNCHANGED <<tool, now, fs, inodes, calls, faults, pureVars>>

\* the GET of computeCandidates fails
QueryFails(p) ==
    /\ pc[p] = "query"
    /\ Fault
    /\ Return(p, "", "listing conda-standalone candidates")
    /\ UNCHANGED <<tool, now, fs, inodes, calls, hist, pureVars>>

(***************************************************************************)
(* downloadAndUnpackTarBz2 / downloadAndUnpackConda and the loop of        *)
(* extractTarFiles up to the call of extractTarFile.                       *)
(***************************************************************************)
extractTarFiles(p, tar) ==
    LET k == MatchingEntry(tar, 1, fileNameMap(tool))
    IN  IF k = 0
        THEN /\ Return(p, "", "could not find file in the tarball")
             /\ UNCHANGED hist
        ELSE /\ local' = [local EXCEPT ![p] =
                    [ local[p] EXCEPT
                        !.target = MapLookup(fileNameMap(tool), tar[k].Name),
                        !.size = tar[k].Size,
                        !.xusr = tar[k].Xusr ]]
             /\ pc' = [pc EXCEPT ![p] = "trylock"]
             /\ UNCHANGED <<result, locks, hist>>

DownloadAnswered(p) ==
    /\ pc[p] = "get"
    /\ IF inferArchiveTypeFromUrl(local[p].url) = "TarBz2Archive"
       THEN \E tar \in TarStreams(tool) : extractTarFiles(p, tar)
       ELSE \E zip \in CondaContainers(tool) :
               LET k == PkgEntry(zip, 1)
               IN  IF k = 0
                   THEN /\ Return(p, "", "could not find pkg-conda-standalone")
                        /\ UNCHANGED hist
                   ELSE extractTarFiles(p, zip[k].Tar)
    /\ UNCHANGED <<tool, now, fs, inodes, calls, faults, pureVars>>

\* the GET fails, or the body is no archive (zip.NewReader, tarReader.Next)
DownloadFails(p) ==
    /\ pc[p] = "get"
    /\ Fault
    /\ Return(p, "", "download")
    /\ UNCHANGED <<tool, now, fs, inodes, calls, hist, pureVars>>

(***************************************************************************)
(* extractTarFile: the function run by the retrier, step by step.          *)
(***************************************************************************)
WriteLock(p) == writeLockPathOf(tmpFileNameOf(local[p].target))

\* a blocking fileLock.Lock() in the place of TryLock and the retry
TryLock_Blocking(p) ==
    /\ pc[p] = "trylock"
    /\ LET l == WriteLock(p)
       IN  /\ locks[l].state = "free" \/ (locks[l].state = "held" /\ locks[l].by = p)
           /\ locks' = [locks EXCEPT ![l] =
                           [exists |-> TRUE, state |-> "held", by |-> p]]
           /\ pc' = [pc EXCEPT ![p] = "open"]
           /\ hist' = [hist EXCEPT ![p].onlyLockFail = FALSE]
    /\ UNCHANGED <<tool, now, fs, inodes, calls, local, result, faults, pureVars>>

\* fileLock.TryLock()
TryLock(p) ==
    /\ pc[p] = "trylock"
    /\ LET l == WriteLock(p)
       IN  IF locks[l].state = "free" \/ (locks[l].state = "held" /\ locks[l].by = p)
           THEN /\ locks' = [locks EXCEPT ![l] =
                                [exists |-> TRUE, state |-> "held", by |-> p]]
                /\ pc' = [pc EXCEPT ![p] = "open"]
                /\ hist' = [hist EXCEPT ![p].onlyLockFail = FALSE]
                /\ UNCHANGED <<local, result>>
           ELSE /\ RetryOrGiveUp(p, "could not lock", local[p])
                /\ UNCHANGED hist
    /\ UNCHANGED <<tool, now, fs, inodes, calls, faults, pureVars>>

\* os.OpenFile(targetFileName, O_RDWR|O_CREATE|O_TRUNC, perm) on the temp file
OpenFile(p) ==
    /\ pc[p] = "open"
    /\ LET tmp == tmpFileNameOf(local[p].target)
           i == IF Exists(tmp) THEN fs[tmp] ELSE FreeInode(fs, Fds)
       IN  /\ fs' = [fs EXCEPT ![tmp] = i]
           /\ inodes' = [inodes EXCEPT ![i] =
                  [ data |-> <<>>,
                    xusr |-> IF Exists(tmp) THEN inodes[i].xusr ELSE local[p].xusr,
                    mtime |-> now ]]
           /\ local' = [local EXCEPT ![p].fd = i, ![p].n = 0, ![p].cpErr = FALSE]
    /\ pc' = [pc EXCEPT ![p] = "copy"]
    /\ hist' = [hist EXCEPT ![p].wrote = TRUE]
    /\ UNCHANGED <<tool, now, locks, calls, result, faults, pureVars>>

OpenFileFails(p) ==
    /\ pc[p] = "open"
    /\ Fault
    /\ RetryOrGiveUp(p, "open", local[p])
    /\ UNCHANGED <<tool, now, fs, inodes, calls, hist, pureVars>>

\* io.Copy(file, tarReader): the rest of the member is read and written, or
\* the reader fails after k more bytes (now, or again with the error it has
\* kept)
Copy(p) ==
    /\ pc[p] = "copy"
    /\ \E k \in 0..(local[p].size - local[p].consumed) :
          /\ \/ /\ ~local[p].trErr
                /\ k = local[p].size - local[p].consumed
                /\ local' = [local EXCEPT ![p].n = k, ![p].consumed = @ + k]
                /\ UNCHANGED faults
             \/ /\ local[p].trErr
                /\ k = 0
                /\ local' = [local EXCEPT ![p].cpErr = TRUE]
                /\ UNCHANGED faults
             \/ /\ ~local[p].trErr
                /\ k < local[p].size - local[p].consumed
                /\ Fault
                /\ local' = [local EXCEPT ![p].n = k, ![p].consumed = @ + k,
                                          ![p].cpErr = TRUE, ![p].trErr = TRUE]
          /\ inodes' = [inodes EXCEPT ![local[p].fd] =
                 [ @ EXCEPT
                     !.data = WriteFrom(@, 1, SubSeq(Bytes(local[p].size),
                                  local[p].consumed + 1, local[p].consumed + k)),
                     !.mtime = now ]]
    /\ pc' = [pc EXCEPT ![p] = "close"]
    /\ UNCHANGED <<tool, now, fs, locks, calls, result, hist, pureVars>>

\* a Close step that does not compare the bytes copied with the header size
CloseFile_SizeUnchecked(p) ==
    /\ pc[p] = "close"
    /\ LET loc == [local[p] EXCEPT !.fd = 0]
           fds == [Fds EXCEPT ![p] = 0]
       IN  /\ inodes' = Collect(fs, fds, inodes)
           /\ \/ /\ Fault
                 /\ RetryOrGiveUp(p, "close", loc)
                 /\ UNCHANGED hist
              \/ /\ UNCHANGED faults
                 /\ IF loc.cpErr
                    THEN /\ RetryOrGiveUp(p, "copy", loc)
                         /\ UNCHANGED hist
                    ELSE /\ local' = [local EXCEPT ![p] = loc]
                         /\ locks' = LeakWriteLock(p)
                         /\ pc' = [pc EXCEPT ![p] = "stat"]
                         /\ hist' = [hist EXCEPT ![p].sawMismatch =
                                         @ \/ loc.n # loc.size]
                         /\ UNCHANGED result
    /\ UNCHANGED <<tool, now, fs, calls, pureVars>>

\* file.Close() and the checks after it
CloseFile(p) ==
    /\ pc[p] = "close"
    /\ LET loc == [local[p] EXCEPT !.fd = 0]
           fds == [Fds EXCEPT ![p] = 0]
       IN  /\ inodes' = Collect(fs, fds, inodes)
           /\ \/ /\ Fault
                 /\ RetryOrGiveUp(p, "close", loc)
                 /\ UNCHANGED hist
              \/ /\ UNCHANGED faults
                 /\ IF loc.cpErr
                    THEN /\ RetryOrGiveUp(p, "copy", loc)
                         /\ UNCHANGED hist
                    ELSE IF loc.n # loc.size
                    THEN /\ RetryOrGiveUp(p, "unexpected bytes written", loc)
                         /\ hist' = [hist EXCEPT ![p].sawMismatch = TRUE]
                    ELSE /\ local' = [local EXCEPT ![p] = loc]
                         /\ locks' = LeakWriteLock(p)
                         /\ pc' = [pc EXCEPT ![p] = "stat"]
                         /\ UNCHANGED <<result, hist>>
    /\ UNCHANGED <<tool, now, fs, calls, pureVars>>

(***************************************************************************)
(* extractTarFiles after extractTarFile: Stat, Chmod, Rename.              *)
(***************************************************************************)
Stat(p) ==
    /\ pc[p] = "stat"
    /\ IF Exists(tmpFileNameOf(local[p].target))
       THEN /\ pc' = [pc EXCEPT ![p] = "chmod"]
            /\ UNCHANGED <<local, result, locks>>
       ELSE Return(p, "", "stat temp file")
    /\ UNCHANGED <<tool, now, fs, inodes, calls, faults, hist, pureVars>>

\* os.Chmod(tmpFileName, st.Mode()|syscall.S_IXUSR)
Chmod(p) ==
    /\ pc[p] = "chmod"
    /\ LET tmp == tmpFileNameOf(local[p].target)
       IN  IF Exists(tmp)
           THEN /\ inodes' = [inodes EXCEPT ![fs[tmp]].xusr = TRUE]
                /\ pc' = [pc EXCEPT ![p] = "rename"]
                /\ hist' = [hist EXCEPT ![p].wrote = TRUE]
                /\ UNCHANGED <<local, result, locks>>
           ELSE /\ Return(p, "", "chmod")
                /\ UNCHANGED <<inodes, hist>>
    /\ UNCHANGED <<tool, now, fs, calls, faults, pureVars>>

\* os.Rename(tmpFileName, targetFileName)
Rename(p) ==
    /\ pc[p] = "rename"
    /\ LET target == local[p].target
           tmp == tmpFileNameOf(target)
       IN  IF Exists(tmp)
           THEN /\ fs' = [fs EXCEPT ![target] = fs[tmp], ![tmp] = 0]
                /\ inodes' = Collect(fs', Fds, inodes)
                /\ hist' = [hist EXCEPT ![p].wrote = TRUE, ![p].renamed = TRUE]
                /\ Return(p, target, "none")
           ELSE /\ Return(p, "", "rename")
                /\ UNCHANGED <<fs, inodes, hist>>
    /\ UNCHANGED <<tool, now, calls, faults, pureVars>>

(***************************************************************************)
(* The rest of the world.                                                  *)
(***************************************************************************)
\* the process ends: the kernel closes its files, which drops its locks
Exit(p) ==
    /\ pc[p] = "done"
    /\ pc' = [pc EXCEPT ![p] = "exited"]
    /\ locks' = [l \in LockPaths |->
                    IF locks[l].by = p
                    THEN [locks[l] EXCEPT !.state = "free", !.by = 0]
                    ELSE locks[l]]
    /\ UNCHANGED <<tool, now, fs, inodes, calls, local, result, faults, hist,
                   pureVars>>

\* the garbage collector finalizes the file of an unreachable Flock value:
\* its descriptor is closed and the lock dropped
Finalize(l) ==
    /\ locks[l].state = "leaked"
    /\ locks' = [locks EXCEPT ![l] = [@ EXCEPT !.state = "free", !.by = 0]]
    /\ UNCHANGED <<tool, now, fs, inodes, pc, calls, local, result, faults,
                   hist, pureVars>>

\* a process outside the model drops the lock it holds
ForeignUnlock(l) ==
    /\ locks[l].state = "foreign"
    /\ locks' = [locks EXCEPT ![l] = [@ EXCEPT !.state = "free"]]
    /\ UNCHANGED <<tool, now, fs, inodes, pc, calls, local, result, faults,
                   hist, pureVars>>

ProcStep(p) ==
    \/ InstallMicromamba(p)
    \/ InstallCondaStandalone(p)
    \/ AcquireInstallLock(p)
    \/ CheckFresh(p)
    \/ QueryAnswered(p)
    \/ QueryFails(p)
    \/ DownloadAnswered(p)
    \/ DownloadFails(p)
    \/ TryLock(p)
    \/ OpenFile(p)
    \/ OpenFileFails(p)
    \/ Copy(p)
    \/ CloseFile(p)
    \/ Stat(p)
    \/ Chmod(p)
    \/ Rename(p)

Next ==
    \/ \E p \in Procs : ProcStep(p)
    \/ \E p \in Procs : Exit(p)
    \/ \E l \in LockPaths : Finalize(l)
    \/ \E l \in LockPaths : ForeignUnlock(l)


(***************************************************************************)
(* Candidate selection on a registry response and on the same response in  *)
(* another order: computeCandidates, then the last candidate.              *)
(***************************************************************************)
NoSelection == [state |-> "idle", err |-> "none", url |-> ""]

\* computeCandidates and `chosen` of InstallCondaStandalone
Select(data) ==
    LET r == computeCandidates(data, PlatformSubdir)
    IN  IF r.err # "none"
        THEN [state |-> "done", err |-> r.err, url |-> ""]
        ELSE IF Len(r.candidates) = 0
        THEN [state |-> "done", err |-> "panic", url |-> ""]
        ELSE [ state |-> "done", err |-> "none",
               url |-> "https:" \o Chosen(r.candidates).DownloadUrl ]

Injective(f) == \A i, j \in DOMAIN f : f[i] = f[j] => i = j

\* the responses of at most MaxDescriptors distinct descriptors
Responses ==
    UNION { {s \in [1..n -> PkgPool] : Injective(s)} : n \in 0..MaxDescriptors }

Orders(n) == {f \in [1..n -> 1..n] : Injective(f)}

Reordered(data, f) == [i \in 1..Len(data) |-> data[f[i]]]

SelectBest ==
    /\ selection.state = "idle"
    /\ selection' = Select(response)
    /\ UNCHANGED <<response, reselection, instVars, resVars, verVars, ensVars, extVars>>

\* the registry lists the same descriptors in another order
SelectBestReordered ==
    /\ selection.state = "done"
    /\ reselection.state = "idle"
    /\ \E f \in Orders(Len(response)) :
          reselection' = Select(Reordered(response, f))
    /\ UNCHANGED <<response, selection, instVars, resVars, verVars, ensVars, extVars>>

SelectNext == SelectBest \/ SelectBestReordered

(***************************************************************************)
(* Paths: filepath.SplitList, filepath.Clean and filepath.Join on a        *)
(* Unix-like platform.                                                     *)
(***************************************************************************)
SplitList(path) == IF path = "" THEN <<>> ELSE Split(path, ":")

\* the elements Clean keeps, in order: empty and "." elements go, ".."
\* removes the element before it, and is kept only by a relative path
RECURSIVE CleanElems(_, _, _, _)
CleanElems(elems, i, rooted, kept) ==
    IF i > Len(elems) THEN kept
    ELSE LET e == elems[i]
         IN  IF e = "" \/ e = "."
             THEN CleanElems(elems, i + 1, rooted, kept)
             ELSE IF e = ".."
             THEN IF Len(kept) > 0 /\ kept[Len(kept)] # ".."
                  THEN CleanElems(elems, i + 1, rooted,
                                  SubSeq(kept, 1, Len(kept) - 1))
                  ELSE IF rooted
                  THEN CleanElems(elems, i + 1, rooted, kept)
                  ELSE CleanElems(elems, i + 1, rooted, Append(kept, e))
             ELSE CleanElems(elems, i + 1, rooted, Append(kept, e))

Clean(path) ==
    LET rooted == HasPrefix(path, "/")
        body == Join(CleanElems(Split(path, "/"), 1, rooted, <<>>), "/")
    IN  IF rooted THEN "/" \o body
        ELSE IF body = "" THEN "." ELSE body

\* filepath.Join(dir, name)
JoinPath(dir, name) ==
    IF dir = "" /\ name = "" THEN ""
    ELSE IF dir = "" THEN Clean(name)
    ELSE IF name = "" THEN Clean(dir)
    ELSE Clean(dir \o "/" \o name)

(***************************************************************************)
(* ResolveExecutable, FindExecutable and assertExecutable.  What is found  *)
(* at a path is one of                                                     *)
(*   absent  nothing             dir     a directory                       *)
(*   plain   a file without an execute bit                                 *)
(*   ok      an executable file, the predicate returns (true, nil)         *)
(*   low     an executable file, the predicate returns (false, nil)        *)
(*   broken  an executable file, the predicate returns (false, err)        *)
(***************************************************************************)
Kinds == {"absent", "dir", "plain", "ok", "low", "broken"}

KindOf(path) == IF path \in DOMAIN disk THEN disk[path] ELSE "absent"

\* assertExecutable(file) = nil
assertExecutable(file) == KindOf(file) \in {"ok", "low", "broken"}

\* predicate(path): <<result, err = nil>>
predicate(path) ==
    IF KindOf(path) = "ok" THEN <<TRUE, TRUE>>
    ELSE IF KindOf(path) = "low" THEN <<FALSE, TRUE>>
    ELSE <<FALSE, FALSE>>

bad == JoinPath(".pyenv", "shims")

RECURSIVE FilterShims(_, _)
FilterShims(dirs, i) ==
    IF i > Len(dirs) THEN <<>>
    ELSE IF ~Contains(dirs[i], bad)
         THEN <<dirs[i]>> \o FilterShims(dirs, i + 1)
         ELSE FilterShims(dirs, i + 1)

filteredPaths(dataDir, path) == <<dataDir>> \o FilterShims(SplitList(path), 1)

newPathEnv(dataDir, path) == Join(filteredPaths(dataDir, path), ":")

\* the data directories and the values of PATH of the calls
DataDirs == {"/d", "/u/.pyenv/shims", "/a:/b"}

PathEnvs == {"", "/b", "/u/.pyenv/shims:/b", "/u/.pyenv//shims", ":/b"}

ExecutableName == "conda"

\* the directories a call can come to look into
DirsOf(dataDir, path) ==
    LET given == <<dataDir>> \o SplitList(path)
        taken == SplitList(newPathEnv(dataDir, path))
    IN  {given[i] : i \in 1..Len(given)} \cup {taken[i] : i \in 1..Len(taken)}

DirOrDot(dir) == IF dir = "" THEN "." ELSE dir

PathsOf(dataDir, path) ==
    {JoinPath(DirOrDot(d), ExecutableName) : d \in DirsOf(dataDir, path)}

NoLookup ==
    [ state |-> "idle", dataDir |-> "", path |-> "", dirs |-> <<>>, i |-> 0,
      result |-> "", err |-> "none" ]

Lookups ==
    /\ \E dataDir \in DataDirs, path \in PathEnvs :
          /\ lookup = [NoLookup EXCEPT !.dataDir = dataDir, !.path = path]
          /\ disk \in { d \in [PathsOf(dataDir, path) -> Kinds] :
                           Cardinality({f \in DOMAIN d : d[f] # "absent"})
                               <= MaxFiles }

\* a ResolveExecutable that exports the search path it built as PATH
ResolveExecutable_Setenv ==
    /\ lookup.state = "idle"
    /\ lookup' = [ lookup EXCEPT
                     !.state = "search",
                     !.path = newPathEnv(lookup.dataDir, lookup.path),
                     !.dirs = SplitList(newPathEnv(lookup.dataDir, lookup.path)),
                     !.i = 1 ]
    /\ UNCHANGED <<disk, instVars, selVars, verVars, ensVars, extVars>>

\* ResolveExecutable up to its call of FindExecutable
ResolveExecutable ==
    /\ lookup.state = "idle"
    /\ lookup' = [ lookup EXCEPT
                     !.state = "search",
                     !.dirs = SplitList(newPathEnv(lookup.dataDir, lookup.path)),
                     !.i = 1 ]
    /\ UNCHANGED <<disk, instVars, selVars, verVars, ensVars, extVars>>

\* a loop that ends the search at a candidate whose predicate fails to run
FindExecutable_ErrorAborts ==
    /\ lookup.state = "search"
    /\ lookup.i <= Len(lookup.dirs)
    /\ LET dir == DirOrDot(lookup.dirs[lookup.i])
           path == JoinPath(dir, ExecutableName)
       IN  IF assertExecutable(path) /\ ~predicate(path)[2]
           THEN lookup' = [lookup EXCEPT !.state = "done", !.result = "",
                                         !.err = "predicate"]
           ELSE IF assertExecutable(path) /\ predicate(path)[1]
           THEN lookup' = [lookup EXCEPT !.state = "done", !.result = path]
           ELSE lookup' = [lookup EXCEPT !.i = lookup.i + 1]
    /\ UNCHANGED <<disk, instVars, selVars, verVars, ensVars, extVars>>

\* one round of the loop of FindExecutable
FindExecutable ==
    /\ lookup.state = "search"
    /\ lookup.i <= Len(lookup.dirs)
    /\ LET dir == DirOrDot(lookup.dirs[lookup.i])
           path == JoinPath(dir, ExecutableName)
       IN  IF /\ assertExecutable(path)
              /\ predicate(path)[2]
              /\ predicate(path)[1]
           THEN lookup' = [lookup EXCEPT !.state = "done", !.result = path]
           ELSE lookup' = [lookup EXCEPT !.i = lookup.i + 1]
    /\ UNCHANGED <<disk, instVars, selVars, verVars, ensVars, extVars>>

\* a FindExecutable that ends its loop with an empty path and no error
NotFound_NoError ==
    /\ lookup.state = "search"
    /\ lookup.i > Len(lookup.dirs)
    /\ lookup' = [lookup EXCEPT !.state = "done", !.result = ""]
    /\ UNCHANGED <<disk, instVars, selVars, verVars, ensVars, extVars>>

\* FindExecutable after its loop
NotFound ==
    /\ lookup.state = "search"
    /\ lookup.i > Len(lookup.dirs)
    /\ lookup' = [ lookup EXCEPT
                     !.state = "done", !.result = "",
                     !.err = "could not find executable" ]
    /\ UNCHANGED <<disk, instVars, selVars, verVars, ensVars, extVars>>

ResolveNext == ResolveExecutable \/ FindExecutable \/ NotFound

(***************************************************************************)
(* executableHasMinVersion(minVersion, prefix)(executable).  The run of    *)
(* `executable --version` gives its standard output and whether it failed. *)
(***************************************************************************)
\* !v.LessThan(minVersion), both parsed
MeetsMin_Strict(v, minVersion) == LessThan(minVersion, v)

MeetsMin(v, minVersion) == ~LessThan(v, minVersion)

\* parts[len(parts)-1] of strings.Split(line, " ")
LastPart(line) ==
    LET parts == Split(line, " ")
    IN  parts[Len(parts)]

\* the loop over the lines: TRUE when a line returns true
RECURSIVE ScanLines(_, _, _, _)
ScanLines(lines, i, minVersion, prefix) ==
    IF i > Len(lines) THEN FALSE
    ELSE IF /\ HasPrefix(lines[i], prefix)
            /\ Parses(LastPart(lines[i]))
            /\ MeetsMin(Parse(LastPart(lines[i])), minVersion)
         THEN TRUE
         ELSE ScanLines(lines, i + 1, minVersion, prefix)

\* a predicate that reports a version it cannot parse as an error
hasMinVersion_ParseFatal(stdout, failed, minVersion, prefix) ==
    LET lines == Split(ReplaceCRLF(stdout, 1), "\n")
    IN  IF failed THEN [result |-> FALSE, err |-> "exec"]
        ELSE IF \E i \in 1..Len(lines) :
                    HasPrefix(lines[i], prefix) /\ ~Parses(LastPart(lines[i]))
        THEN [result |-> FALSE, err |-> "parse"]
        ELSE [ result |-> ScanLines(lines, 1, Parse(minVersion), prefix),
               err |-> "none" ]

\* the predicate on the outcome of the run: [result, err]
hasMinVersion(stdout, failed, minVersion, prefix) ==
    LET lines == Split(ReplaceCRLF(stdout, 1), "\n")
    IN  IF failed THEN [result |-> FALSE, err |-> "exec"]
        ELSE [ result |-> ScanLines(lines, 1, Parse(minVersion), prefix),
               err |-> "none" ]

Versions == {"0.7.2", "0.7.3", "4.8.1", "4.8.2", "4.8.2.0", "4.10.0"}

MinVersions == {"0.7.3", "4.8.2", "4.10.0"}

Prefixes == {"conda", "mamba", ""}

\* the output of an executable that reports version v in the form of prefix
Report(prefix, v) == IF prefix = "" THEN v \o "\n" ELSE prefix \o " " \o v \o "\n"

Outputs ==
    {Report(prefix, v) : prefix \in Prefixes, v \in Versions}
        \cup { "", "conda 4.8.3\r\n", "mamba 0.7.2\nconda 4.9.2\n",
               "conda 4.x\n", "conda 4.8.2 \n", "usage: conda [-h]\n",
               "conda 4.x\nconda 4.9.0\n" }

NoCheck ==
    [ state |-> "idle", stdout |-> "", failed |-> FALSE, minVersion |-> "",
      prefix |-> "", result |-> FALSE, err |-> "none", ran |-> <<>>,
      v1Check |-> [result |-> FALSE, err |-> "none"],
      v2Check |-> [result |-> FALSE, err |-> "none"] ]

Runs ==
    \E stdout \in Outputs, failed \in BOOLEAN,
       minVersion \in MinVersions, prefix \in Prefixes :
        check = [ NoCheck EXCEPT !.stdout = stdout, !.failed = failed,
                                 !.minVersion = minVersion, !.prefix = prefix ]

\* exec.Command(executable, "--version").Output() returns an error
RunFails ==
    /\ check.state = "idle"
    /\ check.failed
    /\ LET r == hasMinVersion(check.stdout, TRUE, check.minVersion, check.prefix)
       IN  check' = [check EXCEPT !.state = "done", !.result = r.result,
                                  !.err = r.err]
    /\ UNCHANGED <<instVars, selVars, resVars, ensVars, extVars>>

\* the run succeeded: its output is scanned
ScanOutput ==
    /\ check.state = "idle"
    /\ ~check.failed
    /\ LET r == hasMinVersion(check.stdout, FALSE, check.minVersion, check.prefix)
       IN  check' = [check EXCEPT !.state = "done", !.result = r.result,
                                  !.err = r.err]
    /\ UNCHANGED <<instVars, selVars, resVars, ensVars, extVars>>

VersionNext == RunFails \/ ScanOutput

(***************************************************************************)
(* mambaVersionCheck(executable): the two conventions, one run of the      *)
(* executable each.                                                        *)
(***************************************************************************)
DefaultMinMambaVersion == "0.7.3"

DefaultMinCondaVersion == "4.8.2"

MambaRuns ==
    \E stdout \in Outputs, failed \in BOOLEAN :
        check = [ NoCheck EXCEPT !.state = "v1", !.stdout = stdout,
                                 !.failed = failed,
                                 !.minVersion = DefaultMinMambaVersion ]

\* a first check whose error does not end the version check
MambaV1Check_ErrorIgnored ==
    /\ check.state = "v1"
    /\ LET r == hasMinVersion(check.stdout, check.failed, check.minVersion, "mamba")
       IN  check' =
             IF r.result
             THEN [ check EXCEPT !.state = "done", !.ran = <<"mamba">>,
                                 !.v1Check = r, !.result = TRUE ]
             ELSE [check EXCEPT !.state = "v2", !.ran = <<"mamba">>, !.v1Check = r]
    /\ UNCHANGED <<instVars, selVars, resVars, ensVars, extVars>>

\* v1Check, err := executableHasMinVersion(minMambaVersion, "mamba")(executable)
MambaV1Check ==
    /\ check.state = "v1"
    /\ LET r == hasMinVersion(check.stdout, check.failed, check.minVersion, "mamba")
       IN  check' =
             IF r.err # "none"
             THEN [ check EXCEPT !.state = "done", !.ran = <<"mamba">>,
                                 !.v1Check = r, !.result = FALSE,
                                 !.err = "v1 style check failed" ]
             ELSE IF r.result
             THEN [ check EXCEPT !.state = "done", !.ran = <<"mamba">>,
                                 !.v1Check = r, !.result = TRUE ]
             ELSE [check EXCEPT !.state = "v2", !.ran = <<"mamba">>, !.v1Check = r]
    /\ UNCHANGED <<instVars, selVars, resVars, ensVars, extVars>>

\* v2Check, err := executableHasMinVersion(minMambaVersion, "")(executable):
\* the executable is run again, and this run can fail
MambaV2Check ==
    /\ check.state = "v2"
    /\ \E failed \in BOOLEAN :
          LET r == hasMinVersion(check.stdout, failed, check.minVersion, "")
          IN  check' =
                IF r.err # "none"
                THEN [ check EXCEPT !.state = "done", !.ran = Append(@, ""),
                                    !.v2Check = r, !.result = FALSE,
                                    !.err = "micromamba style check failed" ]
                ELSE [ check EXCEPT !.state = "done", !.ran = Append(@, ""),
                                    !.v2Check = r, !.result = r.result ]
    /\ UNCHANGED <<instVars, selVars, resVars, ensVars, extVars>>

MambaNext == MambaV1Check \/ MambaV2Check

(***************************************************************************)
(* The command: rootCmd.Run and EnsureConda on one host.  A file of the    *)
(* host is what `file --version` gives when it is run, and its mtime.      *)
(***************************************************************************)
GOOSes == {"linux", "windows"}

ToolNames == {"mamba", "micromamba", "conda", "conda_standalone"}

\* os.PathListSeparator
PathListSeparator(goos) == IF goos = "windows" THEN ";" ELSE ":"

\* filepath.Join(dir, name); on windows for a dir that is clean already
JoinOn(goos, dir, name) ==
    IF goos = "windows" THEN dir \o "\\" \o name ELSE JoinPath(dir, name)

\* filepath.SplitList(path); on windows for a path without quotes
SplitListOn(goos, path) ==
    IF goos = "windows"
    THEN IF path = "" THEN <<>> ELSE Split(path, ";")
    ELSE SplitList(path)

targetExeFilenameOn(goos, exeName) ==
    LET targetFileName == JoinOn(goos, sitePath, exeName)
    IN  IF goos = "windows" THEN targetFileName \o ".exe" ELSE targetFileName

\* the one directory of PATH on the hosts of the model
PathDir(goos) == IF goos = "windows" THEN "c:\\b" ELSE "/b"

Absent == [present |-> FALSE, stdout |-> "", failed |-> TRUE, mtime |-> 0]

Binary(stdout, failed, mtime) ==
    [present |-> TRUE, stdout |-> stdout, failed |-> failed, mtime |-> mtime]

FileAt(files, path) == IF path \in DOMAIN files THEN files[path] ELSE Absent

\* what a binary of the named tool prints for --version
VersionOutput(name, kind) ==
    IF name = "mamba"
    THEN Report("mamba", IF kind = "good" THEN "0.7.3" ELSE "0.7.2")
    ELSE IF name = "micromamba"
    THEN Report("", IF kind = "good" THEN "0.7.3" ELSE "0.7.2")
    ELSE Report("conda", IF kind = "good" THEN "4.8.2" ELSE "4.8.1")

\* a file of the given kind: a good or an old release, or one that cannot run
FileOf(name, kind, mtime) ==
    IF kind = "none" THEN Absent
    ELSE IF kind = "broken" THEN Binary("", TRUE, mtime)
    ELSE Binary(VersionOutput(name, kind), FALSE, mtime)

\* microMambaVersionCheck := executableHasMinVersion(minMambaVersion, "")
microMambaVersionCheck(f) ==
    hasMinVersion(f.stdout, f.failed, DefaultMinMambaVersion, "")

\* condaVersionCheck := executableHasMinVersion(minCondaVersion, "conda")
condaVersionCheck(f) ==
    hasMinVersion(f.stdout, f.failed, DefaultMinCondaVersion, "conda")

mambaVersionCheck(f) ==
    LET v1Check == hasMinVersion(f.stdout, f.failed, DefaultMinMambaVersion, "mamba")
        v2Check == hasMinVersion(f.stdout, f.failed, DefaultMinMambaVersion, "")
    IN  IF v1Check.err # "none" THEN [result |-> FALSE, err |-> v1Check.err]
        ELSE IF v1Check.result THEN [result |-> TRUE, err |-> "none"]
        ELSE IF v2Check.err # "none" THEN [result |-> FALSE, err |-> v2Check.err]
        ELSE IF v2Check.result THEN [result |-> TRUE, err |-> "none"]
        ELSE [result |-> FALSE, err |-> "none"]

\* the version predicate EnsureConda uses for the executable of that name
versionPredicate(name, f) ==
    IF name = "mamba" THEN mambaVersionCheck(f)
    ELSE IF name = "micromamba" THEN microMambaVersionCheck(f)
    ELSE condaVersionCheck(f)

RECURSIVE FilterShimsOn(_, _, _)
FilterShimsOn(goos, dirs, i) ==
    IF i > Len(dirs) THEN <<>>
    ELSE IF ~Contains(dirs[i], JoinOn(goos, ".pyenv", "shims"))
         THEN <<dirs[i]>> \o FilterShimsOn(goos, dirs, i + 1)
         ELSE FilterShimsOn(goos, dirs, i + 1)

\* the loop of FindExecutable from entry i on: the path found, or ""
RECURSIVE FindExecutableOn(_, _, _, _, _)
FindExecutableOn(goos, files, dirs, i, name) ==
    IF i > Len(dirs) THEN ""
    ELSE LET path == JoinOn(goos, DirOrDot(dirs[i]), name)
             r == versionPredicate(name, FileAt(files, path))
         IN  IF FileAt(files, path).present /\ r.err = "none" /\ r.result
             THEN path
             ELSE FindExecutableOn(goos, files, dirs, i + 1, name)

\* ResolveExecutable(name, dataDir, predicate of name): the path, "" for none
ResolveExecutableOn(h, name) ==
    LET filtered == <<sitePath>>
                        \o FilterShimsOn(h.goos, SplitListOn(h.goos, h.pathEnv), 1)
        pathEnv == Join(filtered, PathListSeparator(h.goos))
    IN  FindExecutableOn(h.goos, h.files, SplitListOn(h.goos, pathEnv), 1, name)

\* what the download of a tool brings: nothing, a good or an old release
RemoteKinds == {"fail", "good", "old"}

\* InstallMicromamba / InstallCondaStandalone run by the one process of the
\* host: [path, err, files, net]
InstallOn(h, t) ==
    LET target == targetExeFilenameOn(h.goos, t)
        cached == FileAt(h.files, target)
    IN  IF t = "conda_standalone" /\ cached.present /\ Fresh(cached.mtime)
        THEN [path |-> target, err |-> "none", files |-> h.files, net |-> FALSE]
        ELSE IF h.remote = "fail"
        THEN [path |-> "", err |-> "install", files |-> h.files, net |-> TRUE]
        ELSE [ path |-> target, err |-> "none",
               files |-> [h.files EXCEPT ![target] = FileOf(t, h.remote, now)],
               net |-> TRUE ]

HostPaths(goos) ==
    {JoinOn(goos, d, n) : d \in {sitePath, PathDir(goos)}, n \in ToolNames}
        \cup {targetExeFilenameOn(goos, t) : t \in Tools}

NoHost ==
    [ goos |-> "linux", pathEnv |-> "", files |-> <<>>, remote |-> "fail",
      mamba |-> FALSE, micromamba |-> FALSE, conda |-> FALSE,
      condaExe |-> FALSE, noInstall |-> TRUE ]

NoRun ==
    [ state |-> "idle", pass |-> 0, noInstall |-> TRUE, executable |-> "",
      err |-> "none", validated |-> {}, missed |-> {}, net |-> FALSE,
      installs |-> {}, installed |-> "", installedTool |-> "" ]

\* the hosts and command lines of EnsureSpec: at most one executable in the
\* PATH directory and at most one installed earlier in the data directory
Hosts ==
    \E goos \in GOOSes, remote \in RemoteKinds,
       mamba \in BOOLEAN, micromamba \in BOOLEAN, conda \in BOOLEAN,
       condaExe \in BOOLEAN, noInstall \in BOOLEAN,
       pn \in ToolNames, pk \in {"none", "good", "old"},
       dn \in Tools, dk \in {"none", "good", "old", "broken"},
       age \in {3600, 25 * 3600} :
        /\ goos = "windows" => pk = "none"
        /\ host =
             [ goos |-> goos, pathEnv |-> PathDir(goos),
               files |->
                 [ path \in HostPaths(goos) |->
                     IF path = targetExeFilenameOn(goos, dn)
                     THEN FileOf(dn, dk, now - age)
                     ELSE IF path = JoinOn(goos, PathDir(goos), pn)
                     THEN FileOf(pn, pk, now - 25 * 3600)
                     ELSE Absent ],
               remote |-> remote,
               mamba |-> mamba, micromamba |-> micromamba, conda |-> conda,
               condaExe |-> condaExe, noInstall |-> noInstall ]
        /\ run = [NoRun EXCEPT !.state = "start"]

\* EnsureConda returns (executable, err)
Returns(executable, err) ==
    [run EXCEPT !.state = "returned", !.executable = executable, !.err = err]

\* executable, _ = ResolveExecutable(name, dataDir, check) and the return of
\* a path found; otherwise EnsureConda goes on at onMiss
Look(name, onMiss) ==
    LET executable == ResolveExecutableOn(host, name)
    IN  IF executable # ""
        THEN [ Returns(executable, "none") EXCEPT
                 !.validated = @ \cup {<<name, executable>>} ]
        ELSE [ run EXCEPT
                 !.state = onMiss,
                 !.missed = IF run.pass <= 1 THEN @ \cup {name} ELSE @ ]

\* a first EnsureConda call that takes the --no-install flag as given
Run_FlagAtOnce ==
    /\ run.state = "start"
    /\ run' = [run EXCEPT !.state = "mamba", !.pass = 1,
                          !.noInstall = host.noInstall]
    /\ UNCHANGED <<host, instVars, selVars, resVars, verVars, extVars>>

\* rootCmd.Run up to EnsureConda(mamba, micromamba, conda, condaExe, true)
Run ==
    /\ run.state = "start"
    /\ run' = [run EXCEPT !.state = "mamba", !.pass = 1, !.noInstall = TRUE]
    /\ UNCHANGED <<host, instVars, selVars, resVars, verVars, extVars>>

\* if mamba { ... }
EnsureMamba ==
    /\ run.state = "mamba"
    /\ run' = IF host.mamba THEN Look("mamba", "micromamba")
              ELSE [run EXCEPT !.state = "micromamba"]
    /\ UNCHANGED <<host, instVars, selVars, resVars, verVars, extVars>>

\* a micromamba block that installs whatever noInstall says
EnsureMicromamba_AlwaysInstalls ==
    /\ run.state = "micromamba"
    /\ run' = IF host.micromamba
              THEN Look("micromamba", "install_micromamba")
              ELSE [run EXCEPT !.state = "conda"]
    /\ UNCHANGED <<host, instVars, selVars, resVars, verVars, extVars>>

\* if micromamba { ... } up to the install
EnsureMicromamba ==
    /\ run.state = "micromamba"
    /\ run' = IF host.micromamba
              THEN Look("micromamba",
                        IF run.noInstall THEN "conda" ELSE "install_micromamba")
              ELSE [run EXCEPT !.state = "conda"]
    /\ UNCHANGED <<host, instVars, selVars, resVars, verVars, extVars>>

\* if conda { ... }
EnsureCondaOnPath ==
    /\ run.state = "conda"
    /\ run' = IF host.conda THEN Look("conda", "conda_standalone")
              ELSE [run EXCEPT !.state = "conda_standalone"]
    /\ UNCHANGED <<host, instVars, selVars, resVars, verVars, extVars>>

\* if condaStandalone { ... } up to the install, and return "", nil
EnsureCondaStandalone ==
    /\ run.state = "conda_standalone"
    /\ run' = IF host.condaExe
              THEN Look("conda_standalone",
                        IF run.noInstall THEN "returned"
                        ELSE "install_conda_standalone")
              ELSE Returns("", "none")
    /\ UNCHANGED <<host, instVars, selVars, resVars, verVars, extVars>>

\* an install block that trusts the installed file without running it
InstallAndValidate_Trusting(t, onInvalid) ==
    LET r == InstallOn(host, t)
        called == [ run EXCEPT !.installs = @ \cup {t},
                               !.net = @ \/ r.net ]
    IN  /\ host' = [host EXCEPT !.files = r.files]
        /\ run' = IF r.err # "none"
                  THEN [called EXCEPT !.state = "returned", !.executable = "",
                                      !.err = r.err]
                  ELSE [ called EXCEPT
                           !.state = "returned", !.executable = r.path,
                           !.err = "none", !.installed = r.path,
                           !.installedTool = t ]

\* exe, err := Install...(); if err != nil { return "", err }
\* if valid, _ := check(exe); valid { return exe, nil }
InstallAndValidate(t, onInvalid) ==
    LET r == InstallOn(host, t)
        valid == versionPredicate(t, FileAt(r.files, r.path)).result
        called == [ run EXCEPT !.installs = @ \cup {t},
                               !.net = @ \/ r.net ]
    IN  /\ host' = [host EXCEPT !.files = r.files]
        /\ run' = IF r.err # "none"
                  THEN [called EXCEPT !.state = "returned", !.executable = "",
                                      !.err = r.err]
                  ELSE IF valid
                  THEN [ called EXCEPT
                           !.state = "returned", !.executable = r.path,
                           !.err = "none", !.installed = r.path,
                           !.installedTool = t,
                           !.validated = @ \cup {<<t, r.path>>} ]
                  ELSE [ called EXCEPT
                           !.state = onInvalid, !.installed = r.path,
                           !.installedTool = t ]

\* if !noInstall { ... } of the micromamba block
EnsureInstallMicromamba ==
    /\ run.state = "install_micromamba"
    /\ InstallAndValidate("micromamba", "conda")
    /\ UNCHANGED <<instVars, selVars, resVars, verVars, extVars>>

\* if !noInstall { ... } of the conda_standalone block, and return "", nil
EnsureInstallCondaStandalone ==
    /\ run.state = "install_conda_standalone"
    /\ InstallAndValidate("conda_standalone", "returned")
    /\ UNCHANGED <<instVars, selVars, resVars, verVars, extVars>>

\* rootCmd.Run after an EnsureConda call has returned
RunReturned ==
    /\ run.state = "returned"
    /\ run' =
         IF run.pass = 1
         THEN IF run.err # "none" THEN [run EXCEPT !.state = "panic"]
              ELSE IF run.executable # "" THEN [run EXCEPT !.state = "exit0"]
              ELSE IF ~host.noInstall
              THEN [run EXCEPT !.state = "mamba", !.pass = 2,
                               !.noInstall = host.noInstall]
              ELSE [run EXCEPT !.state = "exit1"]
         ELSE IF run.err # "none" THEN [run EXCEPT !.state = "er"]
              ELSE IF run.executable # "" THEN [run EXCEPT !.state = "exit0"]
              ELSE [run EXCEPT !.state = "exit1"]
    /\ UNCHANGED <<host, instVars, selVars, resVars, verVars, extVars>>

\* a direct call EnsureConda(mamba, micromamba, conda, condaStandalone,
\* noInstall) with the flags of the host, outside the command
EnsureConda ==
    /\ run.state = "start"
    /\ run' = [run EXCEPT !.state = "mamba", !.noInstall = host.noInstall]
    /\ UNCHANGED <<host, instVars, selVars, resVars, verVars, extVars>>

CallNext ==
    \/ EnsureConda
    \/ EnsureMamba
    \/ EnsureMicromamba
    \/ EnsureCondaOnPath
    \/ EnsureCondaStandalone
    \/ EnsureInstallMicromamba
    \/ EnsureInstallCondaStandalone

EnsureNext ==
    \/ Run
    \/ EnsureMamba
    \/ EnsureMicromamba
    \/ EnsureCondaOnPath
    \/ EnsureCondaStandalone
    \/ EnsureInstallMicromamba
    \/ EnsureInstallCondaStandalone
    \/ RunReturned

(***************************************************************************)
(* Unpacking one download: downloadAndUnpackTarBz2, downloadAndUnpackConda *)
(* and the loop of extractTarFiles, on tar streams and .conda containers   *)
(* of up to MaxEntries entries.                                            *)
(***************************************************************************)
Typeflags == {"TypeReg", "TypeDir", "TypeSymlink"}

\* the entries a served tar stream is made of
EntryPool(t) ==
    { Entry(n, f, s, TRUE) :
        n \in DOMAIN fileNameMap(t) \cup {"info/index.json"},
        f \in Typeflags, s \in 1..2 }

RECURSIVE SeqsUpTo(_, _)
SeqsUpTo(S, n) ==
    IF n = 0 THEN {<<>>}
    ELSE LET shorter == SeqsUpTo(S, n - 1)
         IN  shorter \cup {Append(q, x) : q \in shorter, x \in S}

\* the entries a served .conda container is made of
ZipPool(t) ==
    { [Name |-> "metadata.json", Tar |-> <<>>],
      [ Name |-> "info-conda-standalone-4.8.2-1.tar.zst",
        Tar |-> <<Entry(MemberName(t), "TypeReg", 1, TRUE)>> ],
      [ Name |-> "pkg-conda-standalone-4.8.2-1.tar.bz2",
        Tar |-> <<Entry(MemberName(t), "TypeReg", 1, TRUE)>> ] }
        \cup { [Name |-> "pkg-conda-standalone-4.8.2-1.tar.zst", Tar |-> tar] :
                 tar \in SeqsUpTo(EntryPool(t), 1) }

NoArchive == [tool |-> "", kind |-> "", tar |-> <<>>, zip |-> <<>>]

NoUnpack ==
    [ state |-> "idle", tar |-> <<>>, read |-> 0, path |-> "", size |-> 0,
      err |-> "none" ]

Archives ==
    \E t \in Tools :
        /\ \/ \E tar \in SeqsUpTo(EntryPool(t), MaxEntries) :
                 archive = [tool |-> t, kind |-> "TarBz2Archive", tar |-> tar,
                            zip |-> <<>>]
           \/ /\ t = "conda_standalone"
              /\ \E zip \in SeqsUpTo(ZipPool(t), MaxEntries) :
                    archive = [tool |-> t, kind |-> "CondaArchive", tar |-> <<>>,
                               zip |-> zip]
        /\ unpack = [NoUnpack EXCEPT !.state = "start"]

\* downloadAndUnpackTarBz2 up to its call of extractTarFiles
OpenTarBz2 ==
    /\ unpack.state = "start"
    /\ archive.kind = "TarBz2Archive"
    /\ unpack' = [unpack EXCEPT !.state = "tar", !.tar = archive.tar]
    /\ UNCHANGED <<archive, instVars, selVars, resVars, verVars, ensVars>>

\* downloadAndUnpackConda up to its call of extractTarFiles
OpenConda ==
    /\ unpack.state = "start"
    /\ archive.kind = "CondaArchive"
    /\ LET k == PkgEntry(archive.zip, 1)
       IN  unpack' =
             IF k = 0
             THEN [ unpack EXCEPT
                      !.state = "done",
                      !.err = "could not find pkg-conda-standalone" ]
             ELSE [unpack EXCEPT !.state = "tar", !.tar = archive.zip[k].Tar]
    /\ UNCHANGED <<archive, instVars, selVars, resVars, verVars, ensVars>>

\* extractTarFiles on the stream, its write, chmod and rename succeeding
ExtractTarFiles ==
    /\ unpack.state = "tar"
    /\ LET map == fileNameMap(archive.tool)
           k == MatchingEntry(unpack.tar, 1, map)
       IN  unpack' =
             IF k = 0
             THEN [ unpack EXCEPT
                      !.state = "done", !.read = Len(unpack.tar),
                      !.err = "could not find file in the tarball" ]
             ELSE [ unpack EXCEPT
                      !.state = "done", !.read = k,
                      !.path = MapLookup(map, unpack.tar[k].Name),
                      !.size = unpack.tar[k].Size ]
    /\ UNCHANGED <<archive, instVars, selVars, resVars, verVars, ensVars>>

ExtractNext == OpenTarBz2 \/ OpenConda \/ ExtractTarFiles

(***************************************************************************)
(* Specifications.                                                         *)
(***************************************************************************)
Init ==
    /\ InstInit
    /\ response = <<>>
    /\ selection = NoSelection
    /\ reselection = NoSelection
    /\ disk = <<>>
    /\ lookup = NoLookup
    /\ check = NoCheck
    /\ host = NoHost
    /\ run = NoRun
    /\ archive = NoArchive
    /\ unpack = NoUnpack

Spec == Init /\ [][Next]_vars

FairSpec == Spec /\ \A p \in Procs : WF_vars(ProcStep(p))

SelectInit ==
    /\ InstInit
    /\ tool = "conda_standalone"
    /\ ~Exists(Target)
    /\ locks[installLockPath].state = "free"
    /\ response \in Responses
    /\ selection = NoSelection
    /\ reselection = NoSelection
    /\ disk = <<>>
    /\ lookup = NoLookup
    /\ check = NoCheck
    /\ host = NoHost
    /\ run = NoRun
    /\ archive = NoArchive
    /\ unpack = NoUnpack

SelectSpec == SelectInit /\ [][SelectNext]_vars

\* the ages, in seconds, of the installed conda_standalone at the calls of
\* FreshSpec
Ages == {-120, -61, -60, -59, 0, 82800, 86399, 86400, 86401, 90000}

FreshInit ==
    /\ tool = "conda_standalone"
    /\ now = 2 * redownloadWhenOlder
    /\ \E t0 \in {[exists |-> FALSE, mtime |-> 0]}
                    \cup {[exists |-> TRUE, mtime |-> now - age] : age \in Ages} :
          /\ fs = [path \in FilePaths |->
                      IF path = Target /\ t0.exists THEN 1 ELSE 0]
          /\ inodes = [i \in Inodes |->
                          IF i = 1 /\ t0.exists
                          THEN [data |-> OldData, xusr |-> TRUE, mtime |-> t0.mtime]
                          ELSE NoInode]
    /\ locks = [l \in LockPaths |-> [exists |-> FALSE, state |-> "free", by |-> 0]]
    /\ pc = [p \in Procs |-> "idle"]
    /\ calls = [p \in Procs |-> 0]
    /\ local = [p \in Procs |-> NoLocal]
    /\ result = [p \in Procs |-> NoResult]
    /\ faults = 0
    /\ hist = [p \in Procs |-> NoHist]
    /\ response = <<>>
    /\ selection = NoSelection
    /\ reselection = NoSelection
    /\ disk = <<>>
    /\ lookup = NoLookup
    /\ check = NoCheck
    /\ host = NoHost
    /\ run = NoRun
    /\ archive = NoArchive
    /\ unpack = NoUnpack

\* InstallCondaStandalone up to the outcome of its freshness check
FreshNext ==
    \E p \in Procs :
        \/ InstallCondaStandalone(p)
        \/ AcquireInstallLock(p)
        \/ CheckFresh(p)

FreshSpec == FreshInit /\ [][FreshNext]_vars

VersionInit ==
    /\ InstInit
    /\ tool = "conda_standalone"
    /\ ~Exists(Target)
    /\ locks[installLockPath].state = "free"
    /\ response = <<>>
    /\ selection = NoSelection
    /\ reselection = NoSelection
    /\ disk = <<>>
    /\ lookup = NoLookup
    /\ host = NoHost
    /\ run = NoRun
    /\ archive = NoArchive
    /\ unpack = NoUnpack
    /\ Runs

VersionSpec == VersionInit /\ [][VersionNext]_vars

ResolveInit ==
    /\ InstInit
    /\ tool = "conda_standalone"
    /\ ~Exists(Target)
    /\ locks[installLockPath].state = "free"
    /\ response = <<>>
    /\ selection = NoSelection
    /\ reselection = NoSelection
    /\ check = NoCheck
    /\ host = NoHost
    /\ run = NoRun
    /\ archive = NoArchive
    /\ unpack = NoUnpack
    /\ Lookups

ResolveSpec == ResolveInit /\ [][ResolveNext]_vars

EnsureInit ==
    /\ InstInit
    /\ tool = "conda_standalone"
    /\ ~Exists(Target)
    /\ locks[installLockPath].state = "free"
    /\ response = <<>>
    /\ selection = NoSelection
    /\ reselection = NoSelection
    /\ disk = <<>>
    /\ lookup = NoLookup
    /\ check = NoCheck
    /\ archive = NoArchive
    /\ unpack = NoUnpack
    /\ Hosts

EnsureSpec == EnsureInit /\ [][EnsureNext]_vars

CallSpec == EnsureInit /\ [][CallNext]_vars

ExtractInit ==
    /\ InstInit
    /\ tool = "conda_standalone"
    /\ ~Exists(Target)
    /\ locks[installLockPath].state = "free"
    /\ response = <<>>
    /\ selection = NoSelection
    /\ reselection = NoSelection
    /\ disk = <<>>
    /\ lookup = NoLookup
    /\ check = NoCheck
    /\ host = NoHost
    /\ run = NoRun
    /\ Archives

ExtractSpec == ExtractInit /\ [][ExtractNext]_vars

MambaInit ==
    /\ InstInit
    /\ tool = "conda_standalone"
    /\ ~Exists(Target)
    /\ locks[installLockPath].state = "free"
    /\ response = <<>>
    /\ selection = NoSelection
    /\ reselection = NoSelection
    /\ disk = <<>>
    /\ lookup = NoLookup
    /\ host = NoHost
    /\ run = NoRun
    /\ archive = NoArchive
    /\ unpack = NoUnpack
    /\ MambaRuns

MambaSpec == MambaInit /\ [][MambaNext]_vars

(***************************************************************************)
(* Properties.                                                             *)
(***************************************************************************)
Member == Bytes(MemberSize)

InCall(p) == pc[p] \notin {"idle", "done", "exited"}

Returned(p) == pc[p] \in {"done", "exited"} /\ calls[p] > 0

HoldsLock(p, l) == locks[l].state = "held" /\ locks[l].by = p

\* C1: at every moment the target path is absent, or holds the previous
\* complete file, or holds a new complete file; it is never zero-length or
\* partially written.
C1_TargetNeverPartial ==
    Exists(Target) => Data(Target) \in {OldData, Member}

\* C2: when installers race through the shared temp file, the file a
\* process renames into place has not been truncated or overwritten by
\* another one (it is complete), and once all of them have returned, one
\* of them with success, the target holds a complete copy of the member.
C2_RaceLeavesCompleteTarget ==
    /\ \A p \in Procs :
          (pc[p] = "rename" /\ Exists(Tmp)) => Data(Tmp) = Member
    /\ ( /\ \A p \in Procs : Returned(p)
         /\ \E p \in Procs : result[p].err = "none" /\ hist[p].renamed )
       => (Exists(Target) /\ Data(Target) = Member)

\* C3: after an install call that returned success, no .tmp file and no
\* .lock file remains in the data directory, and the target exists and is
\* executable.
C3_NoTmpNoLockAfterSuccess ==
    \A p \in Procs :
        (pc[p] = "done" /\ result[p].err = "none")
        => /\ ~Exists(Tmp)
           /\ \A l \in LockPaths : ~locks[l].exists
           /\ Exists(Target)
           /\ inodes[fs[Target]].xusr

\* C8: when an install call has failed with a truncated write, the temp file
\* no longer exists.
C8_TmpDiscardedAfterTruncatedWrite ==
    \A p \in Procs :
        ( /\ pc[p] = "done"
          /\ result[p].err \in {"copy", "unexpected bytes written"} )
        => ~Exists(Tmp)

\* errors of a call that was handed another channel, registry response or
\* archive than the call before it
InputErrors ==
    { "invalid channel name", "listing conda-standalone candidates",
      "unrecognized archive type", "could not find pkg-conda-standalone",
      "could not find file in the tarball" }

\* C9: of two install calls in succession with the same archive and target
\* (nothing else running, no failure of the environment), the second
\* succeeds when the first did, and leaves the target byte-identical.
C9_SecondInstallSucceeds ==
    \A p \in Procs :
        ( /\ pc[p] = "done"
          /\ hist[p].prevOk
          /\ CallsStarted = 2
          /\ faults = 0
          /\ result[p].err \notin InputErrors )
        => /\ result[p].err = "none"
           /\ Exists(Target)
           /\ Data(Target) = hist[p].prevData

\* C10: for every registry response and every reordering of it, selection
\* chooses the same download locator (or fails alike).
C10_SelectionIgnoresOrder ==
    reselection.state = "done"
    => (reselection.err = selection.err /\ reselection.url = selection.url)

InNetwork(p) == pc[p] \in {"query", "get"}

C5_LockRetryBounded ==
    /\ [](\A p \in Procs :
            /\ local[p].tries < MaxTries
            /\ (hist[p].onlyLockFail => ~hist[p].wrote))
    /\ [][\A p \in Procs :
            (pc[p] = "trylock" /\ pc'[p] = "done")
            => /\ local[p].tries = MaxTries - 1
               /\ hist[p].onlyLockFail
               /\ result'[p] = [path |-> "", err |-> "could not lock"]
               /\ fs' = fs /\ inodes' = inodes]_vars

C5_Witness ==
    \E p \in Procs :
        /\ pc[p] = "done"
        /\ result[p].err = "could not lock"
        /\ hist[p].onlyLockFail
        /\ ~hist[p].wrote

\* the steps a call can still take, at most
Rank(p) ==
    IF pc[p] = "lock" THEN 10 * MaxTries + 14
    ELSE IF pc[p] = "fresh" THEN 10 * MaxTries + 13
    ELSE IF pc[p] = "query" THEN 10 * MaxTries + 12
    ELSE IF pc[p] = "get" THEN 10 * MaxTries + 11
    ELSE IF pc[p] = "trylock" THEN 10 * (MaxTries - local[p].tries) + 4
    ELSE IF pc[p] = "open" THEN 10 * (MaxTries - local[p].tries) + 3
    ELSE IF pc[p] = "copy" THEN 10 * (MaxTries - local[p].tries) + 2
    ELSE IF pc[p] = "close" THEN 10 * (MaxTries - local[p].tries) + 1
    ELSE IF pc[p] = "stat" THEN 3
    ELSE IF pc[p] = "chmod" THEN 2
    ELSE IF pc[p] = "rename" THEN 1
    ELSE 0

WaitsForInstallLock(p) ==
    pc[p] = "lock" /\ locks[installLockPath].state # "free"

\* C6 (as claimed): every install call eventually returns, also when another
\* process holds a lock file of the data directory forever.
C6_EveryCallReturns ==
    \A p \in Procs : InCall(p) ~> ~InCall(p)

\* C6 (amended): a call that has not returned can always take a step, except
\* an InstallCondaStandalone waiting in fileLock.Lock() for
\* conda_exe_install.lock while another process holds it (that wait is not
\* bounded); every step of a call lowers a rank that stays positive, so
\* InstallMicromamba always returns, and InstallCondaStandalone returns once
\* it has the install lock: the wait for the write lock is bounded by the
\* retry loop.
C6_BoundedButForInstallLock ==
    /\ [](\A p \in Procs :
            InCall(p) =>
                /\ Rank(p) > 0
                /\ (ENABLED ProcStep(p)) \/ WaitsForInstallLock(p))
    /\ [][\A p \in Procs :
            (InCall(p) /\ (pc'[p] # pc[p] \/ local'[p] # local[p]))
            => Rank(p)' < Rank(p)]_vars

C6_Witness ==
    \E p, q \in Procs :
        /\ p # q
        /\ pc[p] = "done"
        /\ result[p].err = "could not lock"
        /\ locks[writeLockPathOf(Tmp)].state # "free"
        /\ locks[writeLockPathOf(Tmp)].by = q

TargetView == IF Exists(Target) THEN <<TRUE, inodes[fs[Target]]>> ELSE <<FALSE, NoInode>>

\* C7: once an attempt of a call has copied a number of bytes that differs
\* from the size in the header, the call returns an error, it never renames
\* the temp file into place, and none of its further steps changes the
\* target path.
C7_MismatchNeverInstalled ==
    /\ [](\A p \in Procs :
            hist[p].sawMismatch =>
                /\ ~hist[p].renamed
                /\ pc[p] \notin {"stat", "chmod", "rename"}
                /\ (pc[p] \in {"done", "exited"} => result[p].err # "none"))
    /\ [][\A p \in Procs :
            (hist[p].sawMismatch /\ (pc'[p] # pc[p] \/ local'[p] # local[p]))
            => TargetView' = TargetView]_vars

C7_Witness ==
    \E p \in Procs :
        /\ pc[p] = "done"
        /\ hist[p].sawMismatch
        /\ result[p].err = "unexpected bytes written"
(***************************************************************************)
(* Selection: the eligible descriptors of a response and their order.      *)
(***************************************************************************)
\* d is below e in the order (version, build number, timestamp)
Below(d, e) ==
    LET dVer == Parse(d.Version)
        eVer == Parse(e.Version)
        sameVersion == ~LessThan(dVer, eVer) /\ ~LessThan(eVer, dVer)
    IN  \/ LessThan(dVer, eVer)
        \/ sameVersion /\ d.Attrs.BuildNumber < e.Attrs.BuildNumber
        \/ /\ sameVersion
           /\ d.Attrs.BuildNumber = e.Attrs.BuildNumber
           /\ d.Attrs.Timestamp < e.Attrs.Timestamp

ExampleResponse ==
    << Pkg("4.8.0", "h_0", 0, 100, "linux-64", "//a.org/cs-4.8.0-0.tar.bz2"),
       Pkg("4.8.2", "h_1", 1, 100, "linux-64", "//a.org/cs-4.8.2-1.tar.bz2"),
       Pkg("4.8.2", "h_0", 0, 200, "linux-64", "//a.org/cs-4.8.2-0.tar.bz2") >>

\* C11: the chosen candidate is one of the eligible descriptors of the
\* response (subdir matches, build without _onedir_, version parses) and no
\* eligible descriptor is above it in the order (version, build number,
\* timestamp); the response 4.8.0/0/100, 4.8.2/1/100, 4.8.2/0/200 gives the
\* 4.8.2 build 1 descriptor.
C11_ChosenIsMaximum ==
    /\ (selection.state = "done" /\ selection.err = "none") =>
          \E i \in Eligible(response) :
              /\ selection.url = "https:" \o response[i].DownloadUrl
              /\ \A j \in Eligible(response) : ~Below(response[i], response[j])
    /\ (selection.state = "done" /\ response = ExampleResponse) =>
          selection.url = "https://a.org/cs-4.8.2-1.tar.bz2"

C11_Witness ==
    /\ selection.state = "done"
    /\ response = ExampleResponse
    /\ selection.url = "https://a.org/cs-4.8.2-1.tar.bz2"

\* C12: descriptors with an unparseable version are dropped before the
\* sort, so the comparator never panics; they raise no error; and when an
\* eligible descriptor exists, selection succeeds with a descriptor whose
\* version parses.
C12_UnparseableDropped ==
    selection.state = "done" =>
        /\ selection.err # "panic"
        /\ selection.err = "none" <=> Eligible(response) # {}
        /\ selection.err = "none" =>
              \E i \in 1..Len(response) :
                  /\ selection.url = "https:" \o response[i].DownloadUrl
                  /\ Parses(response[i].Version)

C12_Witness ==
    /\ selection.state = "done"
    /\ selection.err = "none"
    /\ Eligible(response) # {}
    /\ \E i \in 1..Len(response) :
          /\ response[i].Attrs.Subdir = PlatformSubdir
          /\ ~Parses(response[i].Version)
\* C13: when no descriptor of the response passes the filters (an empty
\* response included), computeCandidates fails and InstallCondaStandalone
\* returns the listing error: it takes no candidate from the empty list,
\* requests no archive, writes nothing and leaves the target as it is.
C13_NoCandidatesNoDownload ==
    /\ [](\A p \in Procs :
            hist[p].noCandidates =>
                /\ pc[p] \in {"done", "exited"}
                /\ result[p] = [ path |-> "",
                                 err |-> "listing conda-standalone candidates" ]
                /\ ~hist[p].wrote
                /\ ~hist[p].renamed)
    /\ [][\A p \in Procs :
            (pc[p] = "query" /\ hist'[p].noCandidates)
            => (fs' = fs /\ inodes' = inodes)]_vars
    /\ [](computeCandidates(<<>>, PlatformSubdir).err = "candidates")

C13_Witness ==
    \E p \in Procs :
        /\ hist[p].noCandidates
        /\ pc[p] = "done"
        /\ result[p].err = "listing conda-standalone candidates"

\* C14: a channel name with a character other than a letter, a digit, a
\* hyphen or an underscore (ana;conda) makes InstallCondaStandalone return
\* the validation error in its first step, before the lock and before any
\* request; an unset or empty override gives the channel anaconda.
C14_BadChannelRejectedFirst ==
    /\ [](\A p \in Procs :
            hist[p].badChannel =>
                /\ pc[p] \in {"done", "exited"}
                /\ result[p] = [path |-> "", err |-> "invalid channel name"])
    /\ [][\A p \in Procs :
            calls'[p] # calls[p] =>
                /\ hist'[p].badChannel
                      => (fs' = fs /\ inodes' = inodes /\ locks' = locks)
                /\ getChannelName("ana;conda").err = "channel"
                /\ getChannelName("") = [err |-> "none", channel |-> "anaconda"]
                /\ \A env \in ChannelEnvs :
                      WellFormed(env) => getChannelName(env).err = "none"]_vars

C14_Witness ==
    \E p \in Procs :
        /\ hist[p].badChannel
        /\ pc[p] = "done"
        /\ result[p].err = "invalid channel name"
(***************************************************************************)
(* Resolution.                                                             *)
(***************************************************************************)
\* the file of the searched name in directory dir
InDir(dir) == JoinPath(DirOrDot(dir), ExecutableName)

\* the entry dir of a search path qualifies
Qualifies(dir) == KindOf(InDir(dir)) = "ok"

\* C15: ResolveExecutable returns the file of the first qualifying entry of
\* the search path made of the data directory followed by the PATH entries
\* without .pyenv/shims, in their order; so it returns no path outside that
\* search path, and the data directory's file whenever that one qualifies.
C15_FirstQualifyingEntry ==
    lookup.state = "done" =>
        LET searchPath == filteredPaths(lookup.dataDir, lookup.path)
            hits == {k \in 1..Len(searchPath) : Qualifies(searchPath[k])}
        IN  /\ hits # {} =>
                  \E k \in hits :
                      /\ \A j \in hits : k <= j
                      /\ lookup.result = InDir(searchPath[k])
            /\ lookup.result # "" =>
                  \E k \in 1..Len(searchPath) :
                      lookup.result = InDir(searchPath[k])
            /\ Qualifies(lookup.dataDir) =>
                  lookup.result = InDir(lookup.dataDir)

\* C16: when none of the entries FindExecutable goes through qualifies,
\* the call returns an empty path and the not-found error; every call
\* returns either a path and no error or no path and an error.
C16_NotFoundOrPath ==
    lookup.state = "done" =>
        /\ \/ lookup.result # "" /\ lookup.err = "none"
           \/ lookup.result = "" /\ lookup.err # "none"
        /\ (\A k \in 1..Len(lookup.dirs) : ~Qualifies(lookup.dirs[k])) =>
              /\ lookup.result = ""
              /\ lookup.err = "could not find executable"

C16_Witness ==
    /\ lookup.state = "done"
    /\ lookup.result = ""
    /\ lookup.err = "could not find executable"
    /\ \E k \in 1..Len(lookup.dirs) :
          KindOf(InDir(lookup.dirs[k])) \in {"low", "broken", "plain", "dir"}

\* C17: no directory with the segment .pyenv/shims is on the search path
\* FindExecutable goes through, and the returned executable is not located
\* in such a directory.
C17_NoShimDirectory ==
    /\ lookup.state \in {"search", "done"} =>
          \A k \in 1..Len(lookup.dirs) : ~Contains(Clean(lookup.dirs[k]), bad)
    /\ lookup.state = "done" => ~Contains(lookup.result, bad)
(***************************************************************************)
(* The version predicate.                                                  *)
(***************************************************************************)
\* the lines of the output that begin with the prefix
MatchingLines ==
    LET lines == Split(ReplaceCRLF(check.stdout, 1), "\n")
    IN  {lines[i] : i \in {j \in 1..Len(lines) : HasPrefix(lines[j], check.prefix)}}

\* C18: after a successful run the predicate returns true iff the last
\* token of a line with the prefix parses to a version not less than
\* minVersion; with minVersion = v2 and v1 < v2 it rejects an executable
\* that reports v1 and accepts one that reports v2.
C18_MinVersionDecides ==
    (check.state = "done" /\ ~check.failed) =>
        /\ check.result <=>
              \E line \in MatchingLines :
                  /\ Parses(LastPart(line))
                  /\ ~LessThan(Parse(LastPart(line)), Parse(check.minVersion))
        /\ \A v1 \in Versions :
              LessThan(Parse(v1), Parse(check.minVersion)) =>
                  /\ check.stdout = Report(check.prefix, v1) => ~check.result
                  /\ check.stdout = Report(check.prefix, check.minVersion)
                        => check.result

C18_Witness ==
    /\ check.state = "done"
    /\ ~check.failed
    /\ check.minVersion = "4.8.2"
    /\ check.stdout = Report("conda", "4.8.2")
    /\ check.prefix = "conda"
    /\ check.result

\* C19: the predicate returns an error exactly when the run of the
\* executable failed; after a successful run a version that is too low, a
\* last token that does not parse and an output without a matching line
\* all give (false, nil).
C19_ErrorOnlyFromRun ==
    check.state = "done" =>
        /\ check.err # "none" <=> check.failed
        /\ check.failed => ~check.result
        /\ (/\ ~check.failed
            /\ \A line \in MatchingLines :
                  \/ ~Parses(LastPart(line))
                  \/ LessThan(Parse(LastPart(line)), Parse(check.minVersion)))
           => (~check.result /\ check.err = "none")

C19_Witness ==
    /\ check.state = "done"
    /\ ~check.failed
    /\ check.stdout = "conda 4.x\n"
    /\ check.prefix = "conda"
    /\ ~check.result
    /\ check.err = "none"
(***************************************************************************)
(* Freshness.                                                              *)
(***************************************************************************)
\* the age of the installed target, in seconds
TargetAge == now - inodes[fs[Target]].mtime

\* C20: the freshness check of InstallCondaStandalone returns the installed
\* file without reinstalling iff the file exists and its age is below 24
\* hours and above -60 seconds, both strictly; otherwise (a file 25 hours
\* old, one more than 60 seconds in the future, a missing one) the call
\* goes on to the registry.
C20_FreshWindow ==
    [][\A p \in Procs :
        (pc[p] = "fresh" /\ pc'[p] # "fresh") =>
            IF Exists(Target) /\ TargetAge < 24 * 3600 /\ TargetAge > -60
            THEN /\ pc'[p] = "done"
                 /\ result'[p] = [path |-> Target, err |-> "none"]
            ELSE pc'[p] = "query"]_vars

C20_Witness ==
    \E p \in Procs :
        /\ pc[p] = "done"
        /\ result[p] = [path |-> Target, err |-> "none"]
        /\ Exists(Target)
        /\ TargetAge = 23 * 3600
(***************************************************************************)
(* The freshness gate of the two installers.                               *)
(***************************************************************************)
\* the target of the tool exists and is fresh
FreshTarget == Exists(Target) /\ Fresh(inodes[fs[Target]].mtime)

\* C22: for both installable tools, an install call that finds the tool's
\* target in the data directory and fresh returns the existing path, makes
\* no network request and leaves the file as it is.
C22_FreshTargetNoNetwork ==
    [][\A p \in Procs :
        /\ (pc[p] = "fresh" /\ pc'[p] # "fresh" /\ FreshTarget)
           => /\ pc'[p] = "done"
              /\ result'[p] = [path |-> Target, err |-> "none"]
              /\ fs' = fs /\ inodes' = inodes
        /\ (tool = "micromamba" /\ calls'[p] # calls[p] /\ FreshTarget)
           => /\ pc'[p] = "done"
              /\ result'[p] = [path |-> Target, err |-> "none"]
              /\ fs' = fs /\ inodes' = inodes]_vars
(***************************************************************************)
(* The write lock of extractTarFile.                                       *)
(***************************************************************************)
\* C28: the lock on <target>.tmp.lock is released on every exit path of
\* extractTarFile, so a process whose install call has returned holds no
\* lock on the lock file of the target.
C28_WriteLockReleasedOnReturn ==
    \A p \in Procs :
        pc[p] = "done" =>
            \A l \in LockPaths \ {installLockPath} :
                locks[l].by # p \/ locks[l].state = "free"

\* C29: an attempt that ends in a byte-count mismatch is not retried: the
\* error goes to the caller at once.
C29_MismatchNotRetried ==
    [][\A p \in Procs :
        (pc[p] = "close" /\ hist'[p].sawMismatch /\ ~hist[p].sawMismatch)
            => /\ pc'[p] = "done"
               /\ result'[p].err = "unexpected bytes written"]_vars

\* C30: whenever extractTarFile returns success, the temp file holds the
\* complete bytes of the member, from the first byte on.
C30_SuccessMeansCompleteTmp ==
    [][\A p \in Procs :
        (pc[p] = "close" /\ pc'[p] = "stat")
            => LET tmp == tmpFileNameOf(local[p].target)
               IN  /\ fs'[tmp] # 0
                   /\ inodes'[fs'[tmp]].data = Bytes(local[p].size)]_vars
(***************************************************************************)
(* The archive type of a download.                                         *)
(***************************************************************************)
\* C26: a call whose download url ends in none of .tar.bz2, /latest and
\* .conda returns the unrecognized-archive error at once, with no GET request
\* for it and with the files of the data directory unchanged; a call that
\* does request an archive reads it as the type its url names.
C26_UnsupportedUrlFailsEarly ==
    /\ [](\A p \in Procs :
            /\ (hist[p].badUrl /\ pc[p] \in {"done", "exited"})
               => result[p] = [path |-> "", err |-> "unrecognized archive type"]
            /\ hist[p].badUrl => pc[p] \in {"done", "exited"}
            /\ (pc[p] = "get") => ~Unsupported(local[p].url))
    /\ [][\A p \in Procs :
            /\ (hist'[p].badUrl /\ ~hist[p].badUrl)
               => fs' = fs /\ inodes' = inodes /\ pc[p] # "get"
            /\ (pc[p] = "get" /\ pc'[p] = "trylock")
               => IF HasSuffix(local[p].url, ".conda")
                  THEN \E zip \in CondaContainers(tool) :
                          \E k \in 1..Len(zip) :
                              \E j \in 1..Len(zip[k].Tar) :
                                  local'[p].size = zip[k].Tar[j].Size
                  ELSE \E tar \in TarStreams(tool) :
                          \E j \in 1..Len(tar) :
                              local'[p].size = tar[j].Size]_vars

C26_Witness ==
    \E p \in Procs :
        /\ pc[p] = "done"
        /\ hist[p].badUrl
        /\ result[p].err = "unrecognized archive type"
(***************************************************************************)
(* The command and EnsureConda.                                            *)
(***************************************************************************)
\* the tools the flags of the command line enable
Enabled ==
    {n \in ToolNames :
        \/ n = "mamba" /\ host.mamba
        \/ n = "micromamba" /\ host.micromamba
        \/ n = "conda" /\ host.conda
        \/ n = "conda_standalone" /\ host.condaExe}

\* the version predicate of tool n accepts the file now at path
Accepts(n, path) ==
    /\ FileAt(host.files, path).present
    /\ versionPredicate(n, FileAt(host.files, path)).err = "none"
    /\ versionPredicate(n, FileAt(host.files, path)).result

\* C21: when EnsureConda came to install conda_standalone (none was
\* resolved, installs are allowed) and the download would bring a binary
\* that passes the version check, EnsureConda ends with a valid path,
\* whether or not the file in the data directory is judged fresh.
C21_FreshnessNeverBlocks ==
    ( /\ run.state = "returned"
      /\ "conda_standalone" \in run.installs
      /\ host.remote # "fail"
      /\ condaVersionCheck(FileOf("conda_standalone", host.remote, now)).result )
    => /\ run.executable # ""
       /\ run.err = "none"
       /\ \E n \in ToolNames : Accepts(n, run.executable)

\* C23: EnsureConda returns a path only after the version predicate of that
\* tool returned true on that very path, in the search or in the
\* re-validation after the install; an installed file that fails the
\* re-validation is not returned.
C23_ReturnedPathWasValidated ==
    (run.state \in {"returned", "exit0"} /\ run.executable # "")
    => /\ run.err = "none"
       /\ \E n \in Enabled :
             /\ <<n, run.executable>> \in run.validated
             /\ Accepts(n, run.executable)
       /\ (run.installed # "" /\ ~Accepts(run.installedTool, run.installed))
              => run.executable # run.installed

C23_Witness ==
    /\ run.state = "returned"
    /\ run.installed # ""
    /\ run.executable = run.installed
    /\ Accepts(run.installedTool, run.installed)

\* C24: in a run of the command an install (a call of an installer, a
\* network request, a write to the data directory) happens only when
\* --no-install was not given and the first EnsureConda call, made with
\* installs disabled, has searched every enabled tool and found none.
C24_InstallOnlyAfterLocalSearch ==
    /\ [](run.pass = 1 => run.installs = {} /\ ~run.net)
    /\ [](run.pass = 2 =>
            /\ ~host.noInstall
            /\ run.missed = Enabled)
    /\ [][(run'.installs # run.installs \/ run'.net # run.net
              \/ host'.files # host.files)
            => /\ ~host.noInstall
               /\ run.pass = 2
               /\ \A n \in Enabled :
                     n \in run.missed /\ ResolveExecutableOn(host, n) = ""]_vars

C24_Witness ==
    /\ run.pass = 2
    /\ run.net
    /\ run.installs # {}
    /\ run.state = "exit0"

\* C25: with installs allowed and micromamba or conda_standalone enabled, an
\* EnsureConda call ends with a validated path or with an error; it never
\* ends with the empty path and no error.
C25_FoundOrInstallFailed ==
    ( /\ run.state = "returned"
      /\ ~run.noInstall
      /\ (host.micromamba \/ host.condaExe) )
    => (run.executable # "" \/ run.err # "none")

\* C27: the path of a successful install is the file of the tool right in
\* the data directory (with .exe on windows only), and on every platform
\* ResolveExecutable of the tool with the data directory returns that path
\* when the predicate accepts it.
C27_InstalledPathResolves ==
    run.installed # "" =>
        /\ run.installed =
              IF host.goos = "windows"
              THEN sitePath \o "\\" \o run.installedTool \o ".exe"
              ELSE sitePath \o "/" \o run.installedTool
        /\ Accepts(run.installedTool, run.installed)
              => ResolveExecutableOn(host, run.installedTool) = run.installed
(***************************************************************************)
(* The order write, chmod, rename.                                         *)
(***************************************************************************)
\* C31: the target is never visible without its owner-execute bit, it
\* changes only by the rename of a temp file that a chmod has made
\* executable, and a call that fails leaves the target path as it was.
C31_TargetAlwaysExecutable ==
    /\ [](Exists(Target) => inodes[fs[Target]].xusr)
    /\ [][\A p \in Procs :
            (pc'[p] = "done" /\ pc[p] # "done" /\ result'[p].err # "none")
                => TargetView' = TargetView]_vars
(***************************************************************************)
(* The member an unpacking installs.                                       *)
(***************************************************************************)
\* entry i of tar is a regular file whose name is a key of the map of t
IsMember(t, tar, i) ==
    /\ tar[i].Typeflag = "TypeReg"
    /\ tar[i].Name \in DOMAIN fileNameMap(t)

\* zip entry i is an inner archive of the package
IsInner(zip, i) ==
    /\ Len(zip[i].Name) >= Len("pkg-conda-standalone") + Len(".tar.zst")
    /\ SubSeq(zip[i].Name, 1, Len("pkg-conda-standalone")) = "pkg-conda-standalone"
    /\ SubSeq(zip[i].Name, Len(zip[i].Name) - Len(".tar.zst") + 1,
              Len(zip[i].Name)) = ".tar.zst"

\* C32: the unpacking installs the first regular-file entry, in archive
\* order, whose name is a key of the member-to-target map, and reads no
\* entry after it; matching entries that are no regular files are passed
\* over; without such an entry, or without an inner archive in the .conda
\* container, the outcome is the member-not-found error; success always
\* comes with a path.
C32_FirstRegularMemberWins ==
    unpack.state = "done" =>
        LET t == archive.tool
            tar == unpack.tar
        IN  /\ (unpack.err = "none") = (unpack.path # "")
            /\ (archive.kind = "CondaArchive"
                    /\ \A i \in 1..Len(archive.zip) : ~IsInner(archive.zip, i))
               => unpack.err = "could not find pkg-conda-standalone"
            /\ (archive.kind = "CondaArchive"
                    /\ \E i \in 1..Len(archive.zip) : IsInner(archive.zip, i))
               => \E i \in 1..Len(archive.zip) :
                     /\ IsInner(archive.zip, i)
                     /\ \A j \in 1..(i - 1) : ~IsInner(archive.zip, j)
                     /\ tar = archive.zip[i].Tar
            /\ archive.kind = "TarBz2Archive" => tar = archive.tar
            /\ unpack.err # "could not find pkg-conda-standalone" =>
                  IF \E i \in 1..Len(tar) : IsMember(t, tar, i)
                  THEN \E i \in 1..Len(tar) :
                          /\ IsMember(t, tar, i)
                          /\ \A j \in 1..(i - 1) : ~IsMember(t, tar, j)
                          /\ unpack.err = "none"
                          /\ unpack.read = i
                          /\ unpack.size = tar[i].Size
                          /\ unpack.path = targetExeFilename(t)
                  ELSE /\ unpack.err = "could not find file in the tarball"
                       /\ unpack.path = ""

C32_Witness ==
    /\ unpack.state = "done"
    /\ unpack.err = "none"
    /\ unpack.read = 2
    /\ unpack.tar[1].Typeflag = "TypeDir"
    /\ unpack.tar[1].Name \in DOMAIN fileNameMap(archive.tool)
(***************************************************************************)
(* The line the version predicate decides on.                              *)
(***************************************************************************)
\* the lines of the output, in order
OutputLines == Split(ReplaceCRLF(check.stdout, 1), "\n")

\* line i begins with the prefix and ends in a token that is a version
IsVersionLine(i) ==
    /\ HasPrefix(OutputLines[i], check.prefix)
    /\ Parses(LastPart(OutputLines[i]))

\* C33: the predicate decides on the first line that begins with the prefix
\* and whose last token parses as a version: it returns true iff there is
\* such a line and the version of the first one is not below minVersion;
\* later lines do not change the result.
C33_FirstVersionLineDecides ==
    (check.state = "done" /\ ~check.failed) =>
        ( check.result <=>
            \E i \in 1..Len(OutputLines) :
                /\ IsVersionLine(i)
                /\ \A j \in 1..(i - 1) : ~IsVersionLine(j)
                /\ ~LessThan(Parse(LastPart(OutputLines[i])),
                             Parse(check.minVersion)) )
(***************************************************************************)
(* The two conventions of the mamba version check.                         *)
(***************************************************************************)
\* C34: the mamba version check runs the check with the prefix mamba first
\* and the check without prefix second, the second only after the first
\* returned (false, nil), and returns true iff one of the checks it ran
\* returned true.
C34_PrefixedThenUnprefixed ==
    check.state = "done" =>
        /\ Len(check.ran) \in {1, 2}
        /\ check.ran[1] = "mamba"
        /\ Len(check.ran) = 2 =>
              /\ check.ran[2] = ""
              /\ check.v1Check = [result |-> FALSE, err |-> "none"]
        /\ check.v1Check = [result |-> FALSE, err |-> "none"]
              => Len(check.ran) = 2
        /\ check.result <=>
              \/ check.v1Check.result
              \/ (Len(check.ran) = 2 /\ check.v2Check.result)
        /\ check.v1Check.result =>
              \E i \in 1..Len(OutputLines) :
                  /\ HasPrefix(OutputLines[i], "mamba")
                  /\ Parses(LastPart(OutputLines[i]))
                  /\ ~LessThan(Parse(LastPart(OutputLines[i])),
                               Parse(DefaultMinMambaVersion))

C34_Witness ==
    /\ check.state = "done"
    /\ check.result
    /\ Len(check.ran) = 2
    /\ ~check.v1Check.result
    /\ check.stdout = Report("", "0.7.3")
(***************************************************************************)
(* Candidates whose predicate fails.                                       *)
(***************************************************************************)
\* the path FindExecutable probes at entry k of its search path
ProbedAt(k) == JoinPath(DirOrDot(lookup.dirs[k]), ExecutableName)

\* C35: a candidate whose predicate returns an error does not qualify and
\* does not end the search: FindExecutable goes on to the next entry, and
\* an entry after it that qualifies is returned.
C35_PredicateErrorSkipped ==
    /\ [][( /\ lookup.state = "search"
            /\ lookup.i <= Len(lookup.dirs)
            /\ KindOf(ProbedAt(lookup.i)) = "broken"
            /\ lookup' # lookup )
          => /\ lookup'.state = "search"
             /\ lookup'.i = lookup.i + 1
             /\ lookup'.err = "none"]_vars
    /\ [](lookup.state = "done" =>
            \A k \in 1..Len(lookup.dirs) :
                ( /\ KindOf(ProbedAt(k)) = "ok"
                  /\ \A j \in 1..(k - 1) : KindOf(ProbedAt(j)) # "ok" )
                => lookup.result = ProbedAt(k) /\ lookup.err = "none")

C35_Witness ==
    /\ lookup.state = "done"
    /\ lookup.result # ""
    /\ \E k \in 1..Len(lookup.dirs) :
          /\ lookup.result = ProbedAt(k)
          /\ \E j \in 1..(k - 1) :
                KindOf(ProbedAt(j)) = "broken" /\ ProbedAt(j) # ProbedAt(k)
(***************************************************************************)
(* The process environment during a resolution.                            *)
(***************************************************************************)
\* C36: no step of ResolveExecutable or FindExecutable changes PATH
\* (lookup.path), and the search path of the call (lookup.dirs) is the
\* value built from the data directory and that unchanged PATH.
C36_PathNeverModified ==
    /\ [][lookup'.path = lookup.path /\ lookup'.dataDir = lookup.dataDir]_vars
    /\ [](lookup.state \in {"search", "done"} =>
            lookup.dirs = SplitList(newPathEnv(lookup.dataDir, lookup.path)))

C36_Witness ==
    /\ lookup.state = "done"
    /\ lookup.result # ""
    /\ lookup.path # ""
    /\ newPathEnv(lookup.dataDir, lookup.path) # lookup.path
    /\ lookup.i >= 2
    /\ lookup.result = ProbedAt(lookup.i)
(***************************************************************************)
(* A direct call of EnsureConda.                                           *)
(***************************************************************************)
\* C37: a direct call of EnsureConda with installs allowed calls an
\* installer only when no enabled tool resolves on the search path.
C37_InstallOnlyWhenNothingResolves ==
    [][(run'.installs # run.installs)
          => \A n \in Enabled : ResolveExecutableOn(host, n) = ""]_vars

\* the order in which EnsureConda goes through the tools
ToolOrder == <<"mamba", "micromamba", "conda", "conda_standalone">>

\* the tools a call has searched for
Searched == run.missed \cup {v[1] : v \in run.validated}

\* the resolution of the first tool of ToolOrder from position i on that
\* is enabled and resolves; "" when there is none
RECURSIVE FirstResolved(_)
FirstResolved(i) ==
    IF i > Len(ToolOrder) THEN ""
    ELSE IF ToolOrder[i] \in Enabled
            /\ ResolveExecutableOn(host, ToolOrder[i]) # ""
         THEN ResolveExecutableOn(host, ToolOrder[i])
         ELSE FirstResolved(i + 1)

\* C38: a call of EnsureConda with installs disabled returns the
\* resolution of the first tool in the order mamba, micromamba, conda,
\* conda_standalone that is enabled and resolves (the empty path when none
\* does) and a nil error; it searches for enabled tools only, calls no
\* installer, makes no network request and leaves the files as they are.
C38_NoInstallIsSearchOnly ==
    /\ [](run.noInstall /\ run.state # "start" =>
            /\ Searched \subseteq Enabled
            /\ run.installs = {}
            /\ ~run.net
            /\ run.installed = "")
    /\ [](run.noInstall /\ run.state = "returned" =>
            /\ run.executable = FirstResolved(1)
            /\ run.err = "none"
            /\ Searched \cap Enabled =
                  {ToolOrder[i] : i \in
                     {j \in 1..Len(ToolOrder) :
                        /\ ToolOrder[j] \in Enabled
                        /\ \A k \in 1..(j - 1) :
                              ToolOrder[k] \in Enabled
                                 => ResolveExecutableOn(host, ToolOrder[k]) = ""}})
    /\ [][run.noInstall /\ run.state # "start" => host'.files = host.files]_vars

C38_Witness ==
    /\ run.state = "returned"
    /\ run.noInstall
    /\ run.executable # ""
    /\ run.missed # {}
    /\ Enabled # ToolNames
    /\ \E n \in Enabled \ Searched : ResolveExecutableOn(host, n) # ""
(***************************************************************************)
(* The install lock.                                                       *)
(***************************************************************************)
\* p is between fileLock.Lock() and the return of InstallCondaStandalone
InInstall(p) ==
    /\ tool = "conda_standalone"
    /\ pc[p] \notin {"idle", "lock", "done", "exited"}

\* C39: at most one process at a time is between acquiring
\* conda_exe_install.lock and returning from InstallCondaStandalone, that
\* process holds the lock all the while, and every return of a call that
\* held the lock (fresh target, candidate-selection error, download or
\* unpack error, success) leaves the lock free.
C39_InstallLockExclusive ==
    /\ [](Cardinality({p \in Procs : InInstall(p)}) <= 1)
    /\ [](\A p \in Procs :
            /\ InInstall(p) => HoldsLock(p, installLockPath)
            /\ pc[p] \in {"idle", "done", "exited"}
                  => ~HoldsLock(p, installLockPath))
    /\ [][\A p \in Procs :
            (InInstall(p) /\ pc'[p] = "done")
                => locks'[installLockPath].state = "free"]_vars

C39_Witness ==
    \E p, q \in Procs :
        /\ pc[p] = "done"
        /\ result[p].err = "listing conda-standalone candidates"
        /\ calls[p] = 1
        /\ InInstall(q)
        /\ pc[q] = "get"
        /\ HoldsLock(q, installLockPath)
====
